---- MODULE Spec2Model ----
(***************************************************************************)
(* Model of the greentic-mcp execution pipeline:                           *)
(*   - mcp-exec: resolve -> verify -> runner (crates/mcp-exec/src)         *)
(*   - the retry orchestrator exec_with_retries (greentic-mcp/src/lib.rs)  *)
(*                                                                         *)
(* Strings are Rust Strings, Option<T> is a sequence of length 0 or 1,     *)
(* Result<T, E> is a record [ok |-> TRUE, value] or [ok |-> FALSE, err].   *)
(***************************************************************************)
EXTENDS Integers, Sequences, FiniteSets, TLC

(***************************************************************************)
(* Bounds of the model.                                                    *)
(***************************************************************************)
\* Largest configured RuntimePolicy.max_attempts explored (a u32 in the code).
MaxAttempts == 3

\* Duration::MAX at model scale: a Duration is a natural number of time units
\* in 0..MaxDuration, and an exact product above MaxDuration overflows.
MaxDuration == 7

\* Longest time from the start of run_sync to the guest call, in ticks.
MaxSetup == 1

\* Longest run of a guest call that returns, in ticks.
MaxGuest == 4

\* Ticks of the clock observed for one runner invocation.
MaxClock == 6

\* Host calls a guest makes on one store.
MaxHostCalls == 3

\* Runner invocations (run_sync calls) of one process.
MaxSandboxes == 2

\* Calls of exec_test_backend in one process.
MaxBackendCalls == 3

\* Width in bits that stands for u64 in retry::backoff (64 in the code).
U64Bits == 20

\* Width in bits that stands for u32 in WasixExecutor::invoke (32 in the code).
U32Bits == 2

(***************************************************************************)
(* Option and Result.                                                      *)
(***************************************************************************)
None == <<>>

Some(x) == <<x>>

Ok(v) == [ok |-> TRUE, value |-> v]

Err(e) == [ok |-> FALSE, err |-> e]

\* HashMap::get
Get(map, key) == IF key \in DOMAIN map THEN Some(map[key]) ELSE None

\* str::starts_with
StartsWith(s, p) == Len(s) >= Len(p) /\ SubSeq(s, 1, Len(p)) = p

\* str::ends_with
EndsWith(s, p) == Len(s) >= Len(p) /\ SubSeq(s, Len(s) - Len(p) + 1, Len(s)) = p

(***************************************************************************)
(* Digester: resolve.rs compute_digest = hex::encode(Sha256(bytes)).       *)
(* Byte buffers are named by their contents; the hash is a table from      *)
(* contents to nibbles (two nibbles instead of 64), and hex::encode        *)
(* writes each nibble as one lowercase hex character.                      *)
(***************************************************************************)
ArtifactBytes == {"wasmA", "wasmB"}

Sha256(bytes) ==
  CASE bytes = "wasmA" -> <<10, 0>>
    [] bytes = "wasmB" -> <<0, 11>>
    [] OTHER -> <<15, 15>>

HexChar(n) ==
  CASE n = 10 -> "a" [] n = 11 -> "b" [] n = 12 -> "c"
    [] n = 13 -> "d" [] n = 14 -> "e" [] n = 15 -> "f"
    [] n = 0 -> "0" [] n = 1 -> "1" [] n = 2 -> "2" [] n = 3 -> "3"
    [] n = 4 -> "4" [] n = 5 -> "5" [] n = 6 -> "6" [] n = 7 -> "7"
    [] n = 8 -> "8" [] OTHER -> "9"

RECURSIVE HexEncode(_)
HexEncode(nibbles) ==
  IF nibbles = <<>> THEN ""
  ELSE HexChar(Head(nibbles)) \o HexEncode(Tail(nibbles))

\* Faulty variant: the digest is written in uppercase hex.
UpperHexChar(c) ==
  CASE c = "a" -> "A" [] c = "b" -> "B" [] c = "c" -> "C"
    [] c = "d" -> "D" [] c = "e" -> "E" [] c = "f" -> "F"
    [] OTHER -> c

RECURSIVE UpperHex(_)
UpperHex(s) ==
  IF Len(s) = 0 THEN ""
  ELSE UpperHexChar(SubSeq(s, 1, 1)) \o UpperHex(SubSeq(s, 2, Len(s)))

compute_digest_upper(bytes) == UpperHex(HexEncode(Sha256(bytes)))

\* hex::encode(Sha256::digest(bytes))
compute_digest(bytes) == HexEncode(Sha256(bytes))

(***************************************************************************)
(* Verifier: crates/mcp-exec/src/verify.rs                                 *)
(***************************************************************************)
ResolvedArtifact(origin, bytes, digest) ==
  [origin |-> origin, bytes |-> bytes, digest |-> digest]

VerifiedArtifact(resolved, verified_digest, verified_signer) ==
  [resolved |-> resolved,
   verified_digest |-> verified_digest,
   verified_signer |-> verified_signer]

VerifyPolicy(allow_unverified, required_digests, trusted_signers) ==
  [allow_unverified |-> allow_unverified,
   required_digests |-> required_digests,
   trusted_signers |-> trusted_signers]

DigestMismatch(expected, actual) ==
  [type |-> "DigestMismatch", expected |-> expected, actual |-> actual]

UnsignedRejected == [type |-> "UnsignedRejected"]

\* Faulty variant: allow_unverified short-circuits the digest comparison.
verify_allow_bypass(component, artifact, policy) ==
  LET expected_digest == Get(policy.required_digests, component) IN
  IF expected_digest # None /\ ~policy.allow_unverified
       /\ artifact.digest # expected_digest[1]
  THEN Err(DigestMismatch(expected_digest[1], artifact.digest))
  ELSE IF expected_digest = None /\ ~policy.allow_unverified
  THEN Err(UnsignedRejected)
  ELSE Ok(VerifiedArtifact(artifact, Some(artifact.digest), None))

\* Faulty variant: the allow_unverified test is dropped, unsigned artifacts pass.
verify_no_unsigned_check(component, artifact, policy) ==
  LET expected_digest == Get(policy.required_digests, component) IN
  IF expected_digest # None /\ artifact.digest # expected_digest[1]
  THEN Err(DigestMismatch(expected_digest[1], artifact.digest))
  ELSE Ok(VerifiedArtifact(artifact, Some(artifact.digest), None))

\* Faulty variant: an accepted artifact is attributed to the first trusted
\* signer of the policy.
verify_trusted_signer(component, artifact, policy) ==
  LET expected_digest == Get(policy.required_digests, component)
      signer == IF policy.trusted_signers = <<>> THEN None
                ELSE Some(policy.trusted_signers[1])
  IN
  IF expected_digest # None
  THEN IF artifact.digest # expected_digest[1]
       THEN Err(DigestMismatch(expected_digest[1], artifact.digest))
       ELSE Ok(VerifiedArtifact(artifact, Some(artifact.digest), signer))
  ELSE IF ~policy.allow_unverified
       THEN Err(UnsignedRejected)
       ELSE Ok(VerifiedArtifact(artifact, Some(artifact.digest), signer))

\* Faulty variant: verified_digest is the digest the policy required, which
\* is absent when the artifact passed as unverified.
verify_required_digest_only(component, artifact, policy) ==
  LET expected_digest == Get(policy.required_digests, component) IN
  IF expected_digest # None
  THEN IF artifact.digest # expected_digest[1]
       THEN Err(DigestMismatch(expected_digest[1], artifact.digest))
       ELSE Ok(VerifiedArtifact(artifact, expected_digest, None))
  ELSE IF ~policy.allow_unverified
       THEN Err(UnsignedRejected)
       ELSE Ok(VerifiedArtifact(artifact, expected_digest, None))

verify(component, artifact, policy) ==
  LET expected_digest == Get(policy.required_digests, component) IN
  IF expected_digest # None
  THEN IF artifact.digest # expected_digest[1]
       THEN Err(DigestMismatch(expected_digest[1], artifact.digest))
       ELSE Ok(VerifiedArtifact(artifact, Some(artifact.digest), None))
  ELSE IF ~policy.allow_unverified
       THEN Err(UnsignedRejected)
       ELSE Ok(VerifiedArtifact(artifact, Some(artifact.digest), None))

(***************************************************************************)
(* Inputs of the verifier explored by SpecVerify.                          *)
(***************************************************************************)
ComponentNames == {"echo", "echo.wasm"}

\* Digests an operator may write into VerifyPolicy.required_digests: the
\* digest of each artifact, an uppercase spelling of one, and a foreign one.
PolicyDigests == {"a0", "A0", "0b", "00"}

SignerLists == {<<>>, <<"alice">>}

RequiredDigestMaps ==
  UNION {[names -> PolicyDigests] : names \in SUBSET ComponentNames}

Policies ==
  {VerifyPolicy(a, m, s) :
     a \in BOOLEAN, m \in RequiredDigestMaps, s \in SignerLists}

LocalOrigin(path) == [kind |-> "Local", path |-> path]

\* Artifacts as the resolver builds them: digest = compute_digest(bytes).
ResolvedArtifacts ==
  {ResolvedArtifact(LocalOrigin(p), b, compute_digest(b)) :
     p \in {"/r1/echo.wasm", "/r2/echo.wasm"}, b \in ArtifactBytes}

(***************************************************************************)
(* Configuration and errors: crates/mcp-exec/src/config.rs, error.rs       *)
(***************************************************************************)
LocalStore(search_paths, expected_extension) ==
  [kind |-> "Local",
   search_paths |-> search_paths,
   expected_extension |-> expected_extension]

\* LocalStore::new
LocalStoreNew(search_paths) == LocalStore(search_paths, Some("wasm"))

OciStore == [kind |-> "Oci"]

WargStore == [kind |-> "Warg"]

RuntimePolicy(per_call_timeout, max_attempts, base_backoff, wallclock_timeout) ==
  [fuel |-> None,
   max_memory |-> None,
   per_call_timeout |-> per_call_timeout,
   max_attempts |-> max_attempts,
   base_backoff |-> base_backoff,
   wallclock_timeout |-> wallclock_timeout]

ExecConfig(store, security, runtime, http_enabled) ==
  [store |-> store,
   security |-> security,
   runtime |-> runtime,
   http_enabled |-> http_enabled]

ExecRequest(component, action, args, tenant) ==
  [component |-> component, action |-> action, args |-> args, tenant |-> tenant]

ExecErrorResolve(component, source) ==
  [type |-> "Resolve", component |-> component, source |-> source]

ExecErrorVerification(component, source) ==
  [type |-> "Verification", component |-> component, source |-> source]

ExecErrorRunner(component, source) ==
  [type |-> "Runner", component |-> component, source |-> source]

ExecErrorTool(component, action, code, payload) ==
  [type |-> "Tool", component |-> component, action |-> action,
   code |-> code, payload |-> payload]

RunnerTimeout(elapsed) == [type |-> "Timeout", elapsed |-> elapsed]

RunnerInternal(msg) == [type |-> "Internal", msg |-> msg]

RunnerWasmtime(msg) == [type |-> "Wasmtime", msg |-> msg]

RunnerSerde(msg) == [type |-> "Serde", msg |-> msg]

(***************************************************************************)
(* Resolver: crates/mcp-exec/src/resolve.rs                                *)
(* A file system maps a path to [kind |-> "file", bytes], [kind |-> "dir"] *)
(* or [kind |-> "unreadable"] (a regular file whose read fails).           *)
(***************************************************************************)
RECURSIVE LastDot(_)
LastDot(s) ==
  IF Len(s) = 0 THEN 0
  ELSE IF SubSeq(s, Len(s), Len(s)) = "." THEN Len(s)
  ELSE LastDot(SubSeq(s, 1, Len(s) - 1))

\* Path::extension of a single-component path
PathExtension(name) ==
  IF LastDot(name) <= 1 THEN None
  ELSE Some(SubSeq(name, LastDot(name) + 1, Len(name)))

\* Path::file_stem
PathFileStem(name) ==
  IF LastDot(name) <= 1 THEN name ELSE SubSeq(name, 1, LastDot(name) - 1)

\* PathBuf::set_extension with a non-empty extension
PathSetExtension(name, ext) == PathFileStem(name) \o "." \o ext

candidate_file_names(component, extension) ==
  LET base == component
      names1 == <<base>>
      names2 ==
        IF extension # None /\ PathExtension(base) # Some(extension[1])
        THEN Append(names1, PathSetExtension(base, extension[1]))
        ELSE names1
      names3 ==
        IF ~EndsWith(component, ".wasm")
        THEN Append(names2, component \o ".wasm")
        ELSE names2
  IN  IF ~EndsWith(component, ".component.wasm")
      THEN Append(names3, component \o ".component.wasm")
      ELSE names3

\* PathBuf::join of a relative file name
PathJoin(root, name) == root \o "/" \o name

\* Faulty variant: a file counts only if it can be read, so an unreadable
\* candidate is skipped like a missing one.
IsReadableFile(fsys, path) ==
  path \in DOMAIN fsys /\ fsys[path].kind = "file"

\* Path::is_file
IsFile(fsys, path) ==
  path \in DOMAIN fsys /\ fsys[path].kind \in {"file", "unreadable"}

\* The loop over candidate names inside one search root.
RECURSIVE ResolveInRoot(_, _, _)
ResolveInRoot(fsys, root, candidates) ==
  IF candidates = <<>> THEN None
  ELSE LET path == PathJoin(root, Head(candidates)) IN
       IF IsFile(fsys, path)
       THEN IF fsys[path].kind = "unreadable"
            THEN Some(Err([type |-> "Io", path |-> path]))
            ELSE Some(Ok(ResolvedArtifact(LocalOrigin(path), fsys[path].bytes,
                                          compute_digest(fsys[path].bytes))))
       ELSE ResolveInRoot(fsys, root, Tail(candidates))

\* Faulty variant: the loops are nested the other way round, each candidate
\* name is looked up in every root before the next name is tried.
RECURSIVE ResolveCandidatesFirst(_, _, _)
ResolveCandidatesFirst(fsys, roots, candidates) ==
  IF candidates = <<>> THEN Err([type |-> "NotFound"])
  ELSE LET hits == [i \in 1..Len(roots) |->
                      ResolveInRoot(fsys, roots[i], <<Head(candidates)>>)]
           found == {i \in 1..Len(roots) : hits[i] # None}
       IN  IF found # {}
           THEN hits[CHOOSE i \in found : \A j \in found : i <= j][1]
           ELSE ResolveCandidatesFirst(fsys, roots, Tail(candidates))

\* The loop over search roots.
RECURSIVE ResolveInRoots(_, _, _)
ResolveInRoots(fsys, roots, candidates) ==
  IF roots = <<>> THEN Err([type |-> "NotFound"])
  ELSE LET hit == ResolveInRoot(fsys, Head(roots), candidates) IN
       IF hit # None THEN hit[1]
       ELSE ResolveInRoots(fsys, Tail(roots), candidates)

\* Faulty variant: an empty list of roots falls back to a default root
\* instead of finding nothing.
resolve_local_default_root(fsys, component, local) ==
  ResolveInRoots(fsys,
                 IF local.search_paths = <<>> THEN <<"/r1">> ELSE local.search_paths,
                 candidate_file_names(component, local.expected_extension))

resolve_local(fsys, component, local) ==
  ResolveInRoots(fsys, local.search_paths,
                 candidate_file_names(component, local.expected_extension))

resolve(fsys, component, store) ==
  CASE store.kind = "Local" -> resolve_local(fsys, component, store)
    [] store.kind = "Oci" -> Err([type |-> "OciNotImplemented"])
    [] OTHER -> Err([type |-> "WargNotImplemented"])

(***************************************************************************)
(* Tool executor, pure parts: greentic-mcp/src/retry.rs, types.rs          *)
(* Durations are whole milliseconds. u64 is U64Bits wide. The jitter that  *)
(* Uniform::new_inclusive(0.5, 1.5) samples is a number of quarters.       *)
(***************************************************************************)
Max(a, b) == IF a >= b THEN a ELSE b

Min(a, b) == IF a <= b THEN a ELSE b

RECURSIVE Pow2(_)
Pow2(n) == IF n = 0 THEN 1 ELSE 2 * Pow2(n - 1)

U64_MAX == Pow2(U64Bits) - 1

U32_MAX == Pow2(U32Bits) - 1

\* f64::round of quarters / 4: half rounds away from zero.
RoundQuarters(quarters) == (quarters + 2) \div 4

\* f64::clamp
Clamp(x, lo, hi) == Max(lo, Min(x, hi))

\* Faulty variant: a zero base is not raised to one millisecond.
retry_backoff_zero_base(base, attempt, jitter) ==
  LET multiplier == Pow2(Min(attempt, 16))
      scaled == base * multiplier
      max == Min(scaled, U64_MAX)
  IN  Clamp(RoundQuarters(max * jitter), 1, U64_MAX)

\* retry::backoff. 1u128 << min(attempt, 16) always exists, and the u128
\* product of as_millis() and at most 2^16 never saturates.
retry_backoff(base, attempt, jitter) ==
  LET multiplier == Pow2(Min(attempt, 16))
      millis == Max(base, 1)
      scaled == millis * multiplier
      max == Min(scaled, U64_MAX)
  IN  Clamp(RoundQuarters(max * jitter), 1, U64_MAX)

ToolRef(name, timeout_ms, max_retries, retry_backoff_ms) ==
  [name |-> name, timeout_ms |-> timeout_ms, max_retries |-> max_retries,
   retry_backoff_ms |-> retry_backoff_ms]

\* ToolRef::timeout
ToolTimeout(tool) == tool.timeout_ms

\* ToolRef::max_retries
ToolMaxRetries(tool) == IF tool.max_retries = None THEN 0 ELSE tool.max_retries[1]

\* ToolRef::retry_backoff
ToolRetryBackoff(tool) ==
  IF tool.retry_backoff_ms = None THEN 200 ELSE tool.retry_backoff_ms[1]

(***************************************************************************)
(* Retry orchestrator, pure parts: greentic-mcp/src/lib.rs                  *)
(***************************************************************************)

\* Duration::checked_mul(u32): None when the exact product overflows.
DurationCheckedMul(d, n) == IF d * n > MaxDuration THEN None ELSE Some(d * n)

\* Faulty variant: the .max(1) clamp is missing.
EffectiveMaxAttemptsUnclamped(cfg_) == cfg_.runtime.max_attempts

\* let max_attempts = cfg.runtime.max_attempts.max(1);
EffectiveMaxAttempts(cfg_) == Max(cfg_.runtime.max_attempts, 1)

\* Faulty variant: the prefix test forgets the dot.
is_transient_error_no_dot(err) ==
  CASE err.type = "Runner" -> err.source.type = "Timeout"
    [] err.type = "Tool" -> StartsWith(err.code, "transient")
    [] OTHER -> FALSE

is_transient_error(err) ==
  CASE err.type = "Runner" -> err.source.type = "Timeout"
    [] err.type = "Tool" -> StartsWith(err.code, "transient.")
    [] OTHER -> FALSE

\* Faulty variant: the last allowed attempt is never made (off by one).
ShouldRetryOneShort(attempt_, max_attempts_, err) ==
  attempt_ + 1 < max_attempts_ /\ is_transient_error(err)

\* Faulty variant: the last attempt is followed by one more backoff (off by one).
ShouldRetryOneMore(attempt_, max_attempts_, err) ==
  attempt_ <= max_attempts_ /\ is_transient_error(err)

\* Faulty variant: every error is retried while attempts remain.
ShouldRetryAnyError(attempt_, max_attempts_, err) ==
  attempt_ < max_attempts_

\* let should_retry = attempt < max_attempts && is_transient_error(&err);
ShouldRetry(attempt_, max_attempts_, err) ==
  attempt_ < max_attempts_ /\ is_transient_error(err)

\* Faulty variant: the multiplier is the zero-based attempt number.
BackoffZeroBased(cfg_, attempt_) ==
  LET product == DurationCheckedMul(cfg_.runtime.base_backoff, attempt_ - 1) IN
  IF product = None THEN cfg_.runtime.base_backoff ELSE product[1]

\* base_backoff.checked_mul(attempt).unwrap_or(base_backoff)
Backoff(cfg_, attempt_) ==
  LET product == DurationCheckedMul(cfg_.runtime.base_backoff, attempt_) IN
  IF product = None THEN cfg_.runtime.base_backoff ELSE product[1]

\* Faulty variant: the 1-based loop variable is written as it is.
WithTenantAttemptOneBased(req_, attempt_) ==
  IF req_.tenant = None THEN req_
  ELSE [req_ EXCEPT !.tenant = Some([req_.tenant[1] EXCEPT !.attempt = attempt_])]

\* tenant.attempt = attempt - 1 when the request carries a tenant
WithTenantAttempt(req_, attempt_) ==
  IF req_.tenant = None THEN req_
  ELSE [req_ EXCEPT !.tenant = Some([req_.tenant[1] EXCEPT !.attempt = attempt_ - 1])]

(***************************************************************************)
(* Inputs explored by Spec.                                                *)
(***************************************************************************)
TenantCtx(tenant_id, attempt_) == [tenant_id |-> tenant_id, attempt |-> attempt_]

Tenants == {None, Some(TenantCtx("acme", 0))}

\* base_backoff values: zero, a small value, the smallest value whose double
\* overflows, and Duration::MAX itself.
BackoffValues == {0, 2, MaxDuration \div 2 + 1, MaxDuration}

PerCallTimeouts == {3}

WallclockTimeouts == {5}

RuntimePolicies ==
  {RuntimePolicy(p, m, b, w) :
     p \in PerCallTimeouts, m \in 0..MaxAttempts,
     b \in BackoffValues, w \in WallclockTimeouts}

\* File systems the local store is resolved against.
FileSystems ==
  { [p \in {"/r1/echo.wasm"} |-> [kind |-> "file", bytes |-> "wasmA"]],
    [p \in {"/r1/echo"} |-> [kind |-> "dir"]],
    [p \in {"/r1/echo", "/r2/echo.wasm"} |->
       IF p = "/r1/echo" THEN [kind |-> "dir"]
       ELSE [kind |-> "file", bytes |-> "wasmB"]],
    [p \in {"/r1/echo.wasm"} |-> [kind |-> "unreadable"]] }

Stores == {LocalStoreNew(<<"/r1", "/r2">>), OciStore, WargStore}

ExecPolicies ==
  {VerifyPolicy(a, m, <<>>) :
     a \in BOOLEAN,
     m \in {mm \in RequiredDigestMaps : DOMAIN mm \subseteq {"echo"}}}

\* What an injected pipeline (exec_with_retries_backend) does on one
\* invocation: return a value, fail with a runner timeout, a guest trap, a
\* tool error coded "transient.echo" or "transient", or panic.
BackendOutcomes ==
  {"ok", "timeout", "trap", "tool_transient_dot", "tool_transient", "panic"}

ScriptLen == MaxAttempts

Scripts == [1..ScriptLen -> BackendOutcomes]

\* The attempt_result (Result<Result<Value, ExecError>, JoinError>) of the
\* i-th invocation of a scripted pipeline.
BackendResult(outcome, req_, cfg_, i) ==
  CASE outcome = "ok" -> Ok(Ok(req_.args))
    [] outcome = "timeout" ->
         Ok(Err(ExecErrorRunner(req_.component,
                                RunnerTimeout(cfg_.runtime.per_call_timeout))))
    [] outcome = "trap" ->
         Ok(Err(ExecErrorRunner(req_.component, RunnerWasmtime("trap"))))
    [] outcome = "tool_transient_dot" ->
         Ok(Err(ExecErrorTool(req_.component, req_.action, "transient.echo", i)))
    [] outcome = "tool_transient" ->
         Ok(Err(ExecErrorTool(req_.component, req_.action, "transient", i)))
    [] OTHER -> Err([type |-> "JoinError", panic |-> i])

\* What the environment lets Runner::run produce for a verified artifact.
RunOutcomes ==
  {"ok", "timeout", "wasmtime", "serde", "internal", "action_not_found"}

RunResult(outcome, req_, cfg_) ==
  CASE outcome = "ok" -> Ok(req_.args)
    [] outcome = "timeout" -> Err(RunnerTimeout(cfg_.runtime.per_call_timeout))
    [] outcome = "wasmtime" -> Err(RunnerWasmtime("trap"))
    [] outcome = "internal" -> Err(RunnerInternal("blocking runner task failed"))
    [] outcome = "action_not_found" ->
         Err([type |-> "ActionNotFound", action |-> req_.action])
    [] OTHER -> Err(RunnerSerde("bad json"))

(***************************************************************************)
(* JSON values and the mock short-circuit: crates/mcp-exec/src/runner.rs   *)
(***************************************************************************)
RunnerActionNotFound(action) == [type |-> "ActionNotFound", action |-> action]

\* serde_json::Value
JNull == [t |-> "null"]

JBool(b) == [t |-> "bool", v |-> b]

JNumber(n) == [t |-> "number", v |-> n]

JString(s) == [t |-> "string", v |-> s]

JArray(items) == [t |-> "array", v |-> items]

JObject(map) == [t |-> "object", v |-> map]

\* Value::get(&str): a member of an object, None for every other value
ValueGet(value, key) ==
  IF value.t = "object" /\ key \in DOMAIN value.v THEN Some(value.v[key]) ELSE None

\* Value::as_bool
as_bool(value) == IF value.t = "bool" THEN Some(value.v) ELSE None

\* Value::as_object
as_object(value) == IF value.t = "object" THEN Some(value.v) ELSE None

\* Artifact bytes that are not text: two components and a buffer holding 0xff.
ComponentBytes == ArtifactBytes

BinaryBytes == ComponentBytes \cup {"<ff fe 00>"}

\* std::str::from_utf8(bytes).ok(): a text buffer is named by its text.
from_utf8(bytes) == IF bytes \in BinaryBytes THEN None ELSE Some(bytes)

MockResponse == JObject("echo" :> JString("hi"))

\* serde_json::from_str::<Value>(text).ok(), on the texts the model reads.
JsonFromStr(text) ==
  CASE text = "{\"_mock_mcp_exec\":true,\"responses\":{\"tool-invoke\":{\"echo\":\"hi\"}}}" ->
         Some(JObject(("_mock_mcp_exec" :> JBool(TRUE))
                      @@ ("responses" :> JObject("tool-invoke" :> MockResponse))))
    [] text = "{\"_mock_mcp_exec\":true,\"responses\":{\"tool-invoke\":null}}" ->
         Some(JObject(("_mock_mcp_exec" :> JBool(TRUE))
                      @@ ("responses" :> JObject("tool-invoke" :> JNull))))
    [] text = "{\"_mock_mcp_exec\":true,\"responses\":{}}" ->
         Some(JObject(("_mock_mcp_exec" :> JBool(TRUE))
                      @@ ("responses" :> JObject([k \in {} |-> JNull]))))
    [] text = "{\"_mock_mcp_exec\":false,\"responses\":{\"tool-invoke\":{\"echo\":\"hi\"}}}" ->
         Some(JObject(("_mock_mcp_exec" :> JBool(FALSE))
                      @@ ("responses" :> JObject("tool-invoke" :> MockResponse))))
    [] text = "{\"_mock_mcp_exec\":\"true\",\"responses\":{\"tool-invoke\":{\"echo\":\"hi\"}}}" ->
         Some(JObject(("_mock_mcp_exec" :> JString("true"))
                      @@ ("responses" :> JObject("tool-invoke" :> MockResponse))))
    [] text = "{\"_mock_mcp_exec\":1,\"responses\":{\"tool-invoke\":{\"echo\":\"hi\"}}}" ->
         Some(JObject(("_mock_mcp_exec" :> JNumber(1))
                      @@ ("responses" :> JObject("tool-invoke" :> MockResponse))))
    [] text = "{\"responses\":{\"tool-invoke\":{\"echo\":\"hi\"}}}" ->
         Some(JObject("responses" :> JObject("tool-invoke" :> MockResponse)))
    [] text = "{\"_mock_mcp_exec\":true}" ->
         Some(JObject("_mock_mcp_exec" :> JBool(TRUE)))
    [] text = "{\"_mock_mcp_exec\":true,\"responses\":[{\"echo\":\"hi\"}]}" ->
         Some(JObject(("_mock_mcp_exec" :> JBool(TRUE))
                      @@ ("responses" :> JArray(<<MockResponse>>))))
    [] text = "{\"_mock_mcp_exec\":true,\"responses\":null}" ->
         Some(JObject(("_mock_mcp_exec" :> JBool(TRUE)) @@ ("responses" :> JNull)))
    [] text = "[true]" -> Some(JArray(<<JBool(TRUE)>>))
    [] text = "true" -> Some(JBool(TRUE))
    [] text = "{\"echo\":\"hi\"}" -> Some(MockResponse)
    [] OTHER -> None

\* Faulty variant: an action without a response yields Ok(null).
try_mock_json_null_default(bytes, action) ==
  LET text == from_utf8(bytes) IN
  IF text = None THEN None
  ELSE LET root == JsonFromStr(text[1]) IN
       IF root = None THEN None
       ELSE LET flag == ValueGet(root[1], "_mock_mcp_exec")
                is_mock == IF flag = None THEN FALSE
                           ELSE IF as_bool(flag[1]) = None THEN FALSE
                           ELSE as_bool(flag[1])[1]
            IN IF ~is_mock THEN None
               ELSE LET member == ValueGet(root[1], "responses") IN
                    IF member = None THEN None
                    ELSE LET responses == as_object(member[1]) IN
                         IF responses = None THEN None
                         ELSE IF action \in DOMAIN responses[1]
                              THEN Some(Ok(responses[1][action]))
                              ELSE Some(Ok(JNull))

\* Faulty variant: any value of "_mock_mcp_exec" other than false takes the
\* mock path.
try_mock_json_truthy_flag(bytes, action) ==
  LET text == from_utf8(bytes) IN
  IF text = None THEN None
  ELSE LET root == JsonFromStr(text[1]) IN
       IF root = None THEN None
       ELSE LET flag == ValueGet(root[1], "_mock_mcp_exec")
                is_mock == IF flag = None THEN FALSE
                           ELSE IF as_bool(flag[1]) = None THEN TRUE
                           ELSE as_bool(flag[1])[1]
            IN IF ~is_mock THEN None
               ELSE LET member == ValueGet(root[1], "responses") IN
                    IF member = None THEN None
                    ELSE LET responses == as_object(member[1]) IN
                         IF responses = None THEN None
                         ELSE IF action \in DOMAIN responses[1]
                              THEN Some(Ok(responses[1][action]))
                              ELSE Some(Err(RunnerActionNotFound(action)))

\* try_mock_json(bytes, action): Option<Result<Value, RunnerError>>
try_mock_json(bytes, action) ==
  LET text == from_utf8(bytes) IN
  IF text = None THEN None
  ELSE LET root == JsonFromStr(text[1]) IN
       IF root = None THEN None
       ELSE LET flag == ValueGet(root[1], "_mock_mcp_exec")
                is_mock == IF flag = None THEN FALSE
                           ELSE IF as_bool(flag[1]) = None THEN FALSE
                           ELSE as_bool(flag[1])[1]
            IN IF ~is_mock THEN None
               ELSE LET member == ValueGet(root[1], "responses") IN
                    IF member = None THEN None
                    ELSE LET responses == as_object(member[1]) IN
                         IF responses = None THEN None
                         ELSE IF action \in DOMAIN responses[1]
                              THEN Some(Ok(responses[1][action]))
                              ELSE Some(Err(RunnerActionNotFound(action)))

(***************************************************************************)
(* Host capability API: impl RunnerHost for StoreState, runner.rs          *)
(***************************************************************************)
\* StoreState::new(http_enabled)
StoreStateNew(http_enabled) == [http_enabled |-> http_enabled, http_client |-> None]

Chars(s) == {SubSeq(s, i, i) : i \in 1..Len(s)}

\* The characters of an HTTP token (the grave accent, which no input of the
\* model contains, is left out).
TokenChars ==
  Chars("abcdefghijklmnopqrstuvwxyzABCDEFGHIJKLMNOPQRSTUVWXYZ0123456789!#$%&'*+-.^_|~")

\* The characters HeaderValue::from_str accepts: visible ASCII, space and tab.
HeaderValueChars ==
  TokenChars \cup Chars(" \t\"(),/:;<=>?@[]{}")

IsToken(s) == Len(s) > 0 /\ Chars(s) \subseteq TokenChars

\* Method::from_bytes(method.as_bytes()).is_ok()
MethodFromBytes(method) == IsToken(method)

\* str::split_once(':')
SplitOnceColon(s) ==
  LET found == {i \in 1..Len(s) : SubSeq(s, i, i) = ":"} IN
  IF found = {} THEN None
  ELSE LET i == CHOOSE k \in found : \A j \in found : k <= j IN
       Some(<<SubSeq(s, 1, i - 1), SubSeq(s, i + 1, Len(s))>>)

\* str::trim, for the white space the headers of the model contain
RECURSIVE Trim(_)
Trim(s) ==
  IF Len(s) > 0 /\ SubSeq(s, 1, 1) = " " THEN Trim(SubSeq(s, 2, Len(s)))
  ELSE IF Len(s) > 0 /\ SubSeq(s, Len(s), Len(s)) = " "
  THEN Trim(SubSeq(s, 1, Len(s) - 1))
  ELSE s

\* apply_headers: None when every header is accepted, Some(message) for the
\* first header that is not.
RECURSIVE apply_headers(_)
apply_headers(headers) ==
  IF headers = <<>> THEN None
  ELSE LET header == Head(headers)
           parts == SplitOnceColon(header)
       IN IF parts = None THEN Some("invalid-header:" \o header)
          ELSE IF ~IsToken(Trim(parts[1][1]))
          THEN Some("invalid-header-name:" \o Trim(parts[1][1]))
          ELSE IF ~(Chars(Trim(parts[1][2])) \subseteq HeaderValueChars)
          THEN Some("invalid-header-value:" \o header)
          ELSE apply_headers(Tail(headers))

\* What the network and the TLS stack do for one request.
NetOutcome(client_ok, send_ok, status, body_ok) ==
  [client_ok |-> client_ok, send_ok |-> send_ok, status |-> status,
   body_ok |-> body_ok]

NetOutcomes ==
  {NetOutcome(TRUE, TRUE, 200, TRUE), NetOutcome(TRUE, TRUE, 200, FALSE),
   NetOutcome(TRUE, TRUE, 404, TRUE), NetOutcome(TRUE, FALSE, 200, TRUE),
   NetOutcome(FALSE, TRUE, 200, TRUE)}

\* Faulty variant: an invalid method fails the host call itself.
http_request_method_traps(state, method, url, headers, body, net) ==
  LET reply(st, ret, sent) ==
        [state |-> st, ret |-> ret, sent |-> sent,
         built |-> IF state.http_client = None /\ st.http_client # None
                   THEN 1 ELSE 0]
      with_client == [state EXCEPT !.http_client = Some("client")]
  IN
  IF ~state.http_enabled
  THEN reply(state, Ok(Err("http-disabled")), 0)
  ELSE IF state.http_client = None /\ ~net.client_ok
  THEN reply(state, Ok(Err("http-client: builder error")), 0)
  ELSE IF ~MethodFromBytes(method)
  THEN reply(with_client, Err("invalid-method"), 0)
  ELSE IF apply_headers(headers) # None
  THEN reply(with_client, Ok(Err(apply_headers(headers)[1])), 0)
  ELSE IF ~net.send_ok
  THEN reply(with_client, Ok(Err("request: error sending request")), 1)
  ELSE IF net.status # 200
  THEN reply(with_client, Ok(Err("status-" \o ToString(net.status))), 1)
  ELSE IF ~net.body_ok
  THEN reply(with_client, Ok(Err("body: error decoding response body")), 1)
  ELSE reply(with_client, Ok(Ok("response-bytes")), 1)

\* Faulty variant: the method is validated before the flag is looked at.
http_request_method_first(state, method, url, headers, body, net) ==
  LET reply(st, ret, sent) ==
        [state |-> st, ret |-> ret, sent |-> sent,
         built |-> IF state.http_client = None /\ st.http_client # None
                   THEN 1 ELSE 0]
      with_client == [state EXCEPT !.http_client = Some("client")]
  IN
  IF ~MethodFromBytes(method)
  THEN reply(state, Ok(Err("invalid-method")), 0)
  ELSE IF ~state.http_enabled
  THEN reply(state, Ok(Err("http-disabled")), 0)
  ELSE IF state.http_client = None /\ ~net.client_ok
  THEN reply(state, Ok(Err("http-client: builder error")), 0)
  ELSE IF apply_headers(headers) # None
  THEN reply(with_client, Ok(Err(apply_headers(headers)[1])), 0)
  ELSE IF ~net.send_ok
  THEN reply(with_client, Ok(Err("request: error sending request")), 1)
  ELSE IF net.status # 200
  THEN reply(with_client, Ok(Err("status-" \o ToString(net.status))), 1)
  ELSE IF ~net.body_ok
  THEN reply(with_client, Ok(Err("body: error decoding response body")), 1)
  ELSE reply(with_client, Ok(Ok("response-bytes")), 1)

\* Faulty variant: every call that passes the enabled check builds a client
\* of its own and puts it in the place of the one the store holds.
http_request_fresh_client(state, method, url, headers, body, net) ==
  LET reply(st, ret, sent) ==
        [state |-> st, ret |-> ret, sent |-> sent,
         built |-> IF st.http_client # None THEN 1 ELSE 0]
      with_client == [state EXCEPT !.http_client = Some("client")]
      no_client == [state EXCEPT !.http_client = None]
  IN
  IF ~state.http_enabled
  THEN reply(state, Ok(Err("http-disabled")), 0)
  ELSE IF ~net.client_ok
  THEN reply(no_client, Ok(Err("http-client: builder error")), 0)
  ELSE IF ~MethodFromBytes(method)
  THEN reply(with_client, Ok(Err("invalid-method")), 0)
  ELSE IF apply_headers(headers) # None
  THEN reply(with_client, Ok(Err(apply_headers(headers)[1])), 0)
  ELSE IF ~net.send_ok
  THEN reply(with_client, Ok(Err("request: error sending request")), 1)
  ELSE IF net.status # 200
  THEN reply(with_client, Ok(Err("status-" \o ToString(net.status))), 1)
  ELSE IF ~net.body_ok
  THEN reply(with_client, Ok(Err("body: error decoding response body")), 1)
  ELSE reply(with_client, Ok(Ok("response-bytes")), 1)

\* StoreState::http_request with StoreState::http_client inlined: the store
\* after the call, the value returned to the guest, and the number of requests
\* put on the network.
http_request(state, method, url, headers, body, net) ==
  LET reply(st, ret, sent) ==
        [state |-> st, ret |-> ret, sent |-> sent,
         built |-> IF state.http_client = None /\ st.http_client # None
                   THEN 1 ELSE 0]
      with_client == [state EXCEPT !.http_client = Some("client")]
  IN
  IF ~state.http_enabled
  THEN reply(state, Ok(Err("http-disabled")), 0)
  ELSE IF state.http_client = None /\ ~net.client_ok
  THEN reply(state, Ok(Err("http-client: builder error")), 0)
  ELSE IF ~MethodFromBytes(method)
  THEN reply(with_client, Ok(Err("invalid-method")), 0)
  ELSE IF apply_headers(headers) # None
  THEN reply(with_client, Ok(Err(apply_headers(headers)[1])), 0)
  ELSE IF ~net.send_ok
  THEN reply(with_client, Ok(Err("request: error sending request")), 1)
  ELSE IF net.status # 200
  THEN reply(with_client, Ok(Err("status-" \o ToString(net.status))), 1)
  ELSE IF ~net.body_ok
  THEN reply(with_client, Ok(Err("body: error decoding response body")), 1)
  ELSE reply(with_client, Ok(Ok("response-bytes")), 1)

\* StoreState::secret_get
secret_get(state, name) == Ok(Err("secrets-disabled"))

\* Faulty variant: a key reads back as a stored value.
kv_get_present(state, ns, key) == Ok(Some("val"))

\* StoreState::kv_get
kv_get(state, ns, key) == Ok(None)

\* StoreState::kv_put
kv_put(state, ns, key, val) == Ok(<<>>)

(***************************************************************************)
(* Inputs explored by SpecHost.                                            *)
(***************************************************************************)
HostMethods == {"GET", "???"}

HostUrls == {"https://example.com"}

HostHeaders ==
  {<<>>, <<"accept: application/json">>, <<"no-colon">>, <<"bad name: x">>,
   <<"x-trace: a\nb">>}

HostBodies == {None, Some("payload")}

HostSecretNames == {"api-key", ""}

HostKvKeys == {"key", "other"}

(***************************************************************************)
(* Inputs explored by SpecRunner.                                          *)
(***************************************************************************)
\* Component::from_binary(&engine, bytes) succeeds on a component binary.
ComponentFromBinary(bytes) == bytes \in ComponentBytes

RunnerBytes ==
  ComponentBytes \cup
  {"<ff fe 00>",
   "hello",
   "{\"_mock_mcp_exec\":true,\"responses\":{\"tool-invoke\":{\"echo\":\"hi\"}}}",
   "{\"_mock_mcp_exec\":true,\"responses\":{\"tool-invoke\":null}}",
   "{\"_mock_mcp_exec\":true,\"responses\":{}}",
   "{\"_mock_mcp_exec\":false,\"responses\":{\"tool-invoke\":{\"echo\":\"hi\"}}}",
   "{\"_mock_mcp_exec\":\"true\",\"responses\":{\"tool-invoke\":{\"echo\":\"hi\"}}}",
   "{\"_mock_mcp_exec\":1,\"responses\":{\"tool-invoke\":{\"echo\":\"hi\"}}}",
   "{\"responses\":{\"tool-invoke\":{\"echo\":\"hi\"}}}",
   "{\"_mock_mcp_exec\":true}",
   "{\"_mock_mcp_exec\":true,\"responses\":[{\"echo\":\"hi\"}]}",
   "{\"_mock_mcp_exec\":true,\"responses\":null}",
   "[true]",
   "true"}

RunnerActions == {"tool-invoke", "tool-missing"}

RunnerWallclockTimeouts == {1, 5}

RunnerPolicies ==
  {RuntimePolicy(p, 1, 0, w) : p \in PerCallTimeouts, w \in RunnerWallclockTimeouts}

\* Where an invocation of a component can fail before or in the guest call.
RunnerFaults == {"none", "link", "instantiate", "no_exec", "trap", "panic"}

GuestResponses == {"{\"echo\":\"hi\"}", "oops"}

\* The environment of one invocation: `setup` ticks from the start of run_sync
\* to the guest call, then the guest runs `guest` ticks or never returns.
RunnerEnvs ==
  [setup : 0..MaxSetup, returns : BOOLEAN, guest : 0..MaxGuest,
   fault : RunnerFaults, response : GuestResponses]

QuietEnv ==
  [setup |-> 0, returns |-> TRUE, guest |-> 0, fault |-> "none",
   response |-> "{\"echo\":\"hi\"}"]

VARIABLES
  v_component,   \* verify: component name argument
  v_artifact,    \* verify: ResolvedArtifact argument
  v_policy,      \* verify: VerifyPolicy argument
  v_result,      \* verify: Option<Result<VerifiedArtifact, VerificationError>>
  cfg,           \* exec_with_retries: the caller's ExecConfig
  req,           \* exec_with_retries: the (mut) ExecRequest
  fs,            \* the file system the resolver reads
  executor,      \* "exec" (mcp_exec::exec) or "backend" (an injected closure)
  script,        \* outcomes of the injected closure, by invocation number
  pc,            \* exec_with_retries_with: position of the async fn
  max_attempts,  \* local max_attempts
  attempt,       \* loop variable
  invoked,       \* number of times the executor has been called
  hist,          \* per finished invocation: [req, result, steps]
  sleeps,        \* durations passed to sleep(), in order
  result,        \* Option<Result<Value, ExecError>> returned by the call
  w_pc,          \* blocking worker: position inside the executor
  w_req,         \* blocking worker: req_clone
  w_cfg,         \* blocking worker: cfg_clone
  w_steps,       \* exec: pipeline steps performed by this invocation, in order
  w_resolved,    \* exec: Option<ResolvedArtifact>
  w_verified,    \* exec: Option<VerifiedArtifact>
  w_ran,         \* exec: Option<VerifiedArtifact> handed to Runner::run
  w_result,      \* Option<attempt_result>
  r_request,     \* DefaultRunner::run: the ExecRequest
  r_bytes,       \* DefaultRunner::run: artifact.resolved.bytes
  r_runtime,     \* DefaultRunner::run: ctx.runtime
  r_http,        \* DefaultRunner::run: ctx.http_enabled
  r_env,         \* what the host and the guest do: durations, faults, response
  r_clock,       \* ticks since the timeout future was first polled
  r_pc,          \* DefaultRunner::run: position of the caller
  r_timer,       \* the deadline of timeout(): "idle", "armed" or "fired"
  r_future,      \* Option<Result<Value, RunnerError>>: output of block_on
  r_wpc,         \* run_sync on the blocking worker: position
  r_store,       \* run_sync: Option<StoreState>, the live wasmtime Store
  r_started,     \* run_sync: Option<clock> at `started = Instant::now()`
  r_measured,    \* run_sync: Option<started.elapsed()> compared on line 132
  r_finished_at, \* Option<clock> at which the blocking worker ended
  r_wresult,     \* Option<Result<Value, RunnerError>> returned by run_sync
  r_result,      \* Option<Result<Value, RunnerError>> returned by run
  h_store,       \* host API: the StoreState of the store
  h_log,         \* host API: names of the host functions called, in order
  h_last,        \* host API: Option<[fn, args, ret]> of the latest call
  h_sent,        \* host API: requests put on the network
  h_built,       \* host API: HTTP clients constructed for the store
  h_written,     \* host API: the <<ns, key>> pairs passed to kv_put so far
  sb_stores,     \* sandboxes: one record per run_sync call, in creation order
  sb_last,       \* sandboxes: Option<[inv, fn, ret]> of the latest observation
  FLAKY_ATTEMPTS, \* test_tools: the process-wide static AtomicUsize
  tb_calls,      \* exec_test_backend: [backend, input, ret] per call, in order
  b_base,        \* retry::backoff: base.as_millis()
  b_attempt,     \* retry::backoff: attempt
  b_jitter,      \* retry::backoff: the sampled jitter, in quarters
  b_result,      \* retry::backoff: Option<milliseconds returned>
  i_tool,        \* invoke: the ToolRef
  i_pc,          \* invoke: "idle", "start", "loop", "sleeping", "returned"
  i_attempts,    \* invoke: tool.max_retries().saturating_add(1)
  i_attempt,     \* invoke: the loop variable
  i_log,         \* invoke: what each attempt so far did
  i_sleeps,      \* invoke: the backoff slept after each failed attempt
  i_result       \* invoke: Option<Result<ToolOutput, McpError>>

verifyVars == <<v_component, v_artifact, v_policy, v_result>>

callVars == <<cfg, fs, executor, script>>

retryVars == <<req, pc, max_attempts, attempt, invoked, hist, sleeps, result>>

workerVars == <<w_pc, w_req, w_cfg, w_steps, w_resolved, w_verified, w_ran, w_result>>

runnerVars ==
  <<r_request, r_bytes, r_runtime, r_http, r_env, r_clock, r_pc, r_timer,
    r_future, r_wpc, r_store, r_started, r_measured, r_finished_at, r_wresult,
    r_result>>

sandboxVars == <<sb_stores, sb_last>>

testVars == <<FLAKY_ATTEMPTS, tb_calls>>

backoffVars == <<b_base, b_attempt, b_jitter, b_result>>

invokeVars == <<i_tool, i_pc, i_attempts, i_attempt, i_log, i_sleeps, i_result>>

toolVars == <<backoffVars, invokeVars>>

hostVars ==
  <<h_store, h_log, h_last, h_sent, h_built, h_written, sandboxVars, testVars, toolVars>>

vars == <<verifyVars, callVars, retryVars, workerVars, runnerVars, hostVars>>

(***************************************************************************)
(* Initial states.                                                         *)
(***************************************************************************)
EmptyFs == [p \in {} |-> [kind |-> "dir"]]

Requests ==
  {ExecRequest("echo", "tool-invoke", "{\"message\":\"hello\"}", t) : t \in Tenants}

\* Configuration and request of a caller that is not running.
IdleConfig ==
  ExecConfig(OciStore, VerifyPolicy(FALSE, [n \in {} |-> ""], <<>>),
             CHOOSE rt \in RuntimePolicies :
               rt.max_attempts = 1 /\ rt.base_backoff = 0,
             FALSE)

VerifyIdle ==
  /\ v_component = "echo"
  /\ v_artifact = ResolvedArtifact(LocalOrigin("/r1/echo.wasm"), "wasmA",
                                   compute_digest("wasmA"))
  /\ v_policy = VerifyPolicy(FALSE, [n \in {} |-> ""], <<>>)
  /\ v_result = None

WorkerIdle ==
  /\ w_pc = "idle"
  /\ w_req = req
  /\ w_cfg = cfg
  /\ w_steps = <<>>
  /\ w_resolved = None
  /\ w_verified = None
  /\ w_ran = None
  /\ w_result = None

RetryIdle ==
  /\ req \in Requests
  /\ pc = "start"
  /\ max_attempts = 0
  /\ attempt = 0
  /\ invoked = 0
  /\ hist = <<>>
  /\ sleeps = <<>>
  /\ result = None

RunnerIdle ==
  /\ r_request = ExecRequest("echo", "tool-invoke", "{}", None)
  /\ r_bytes = "wasmA"
  /\ r_runtime = IdleConfig.runtime
  /\ r_http = FALSE
  /\ r_env = QuietEnv
  /\ r_clock = 0
  /\ r_pc = "idle"
  /\ r_timer = "idle"
  /\ r_future = None
  /\ r_wpc = "idle"
  /\ r_store = None
  /\ r_started = None
  /\ r_measured = None
  /\ r_finished_at = None
  /\ r_wresult = None
  /\ r_result = None

\* The tool executor of greentic-mcp is not in use.
ToolIdle ==
  /\ b_base = 0
  /\ b_attempt = 0
  /\ b_jitter = 4
  /\ b_result = None
  /\ i_tool = ToolRef("echo", None, None, None)
  /\ i_pc = "idle"
  /\ i_attempts = 0
  /\ i_attempt = 0
  /\ i_log = <<>>
  /\ i_sleeps = <<>>
  /\ i_result = None

HostIdle ==
  /\ h_store = StoreStateNew(FALSE)
  /\ h_log = <<>>
  /\ h_last = None
  /\ h_sent = 0
  /\ h_built = 0
  /\ h_written = {}
  /\ sb_stores = <<>>
  /\ sb_last = None
  /\ FLAKY_ATTEMPTS = 0
  /\ tb_calls = <<>>
  /\ ToolIdle

\* No call of exec_with_retries is in progress.
PipelineIdle ==
  /\ executor = "backend"
  /\ script = [i \in 1..ScriptLen |-> "ok"]
  /\ cfg = IdleConfig
  /\ fs = EmptyFs
  /\ req = ExecRequest("echo", "tool-invoke", "{}", None)
  /\ pc = "idle"
  /\ max_attempts = 0
  /\ attempt = 0
  /\ invoked = 0
  /\ hist = <<>>
  /\ sleeps = <<>>
  /\ result = None
  /\ WorkerIdle

\* A call of exec_with_retries (executor = mcp_exec::exec) or of
\* exec_with_retries_backend (executor = a scripted closure).
InitCall ==
  /\ executor \in {"exec", "backend"}
  /\ \E rt \in RuntimePolicies :
       IF executor = "exec"
       THEN /\ script = [i \in 1..ScriptLen |-> "ok"]
            /\ \E st \in Stores, pol \in ExecPolicies :
                 cfg = ExecConfig(st, pol, rt, FALSE)
            /\ fs \in FileSystems
            /\ cfg.store.kind # "Local" => fs = EmptyFs
       ELSE /\ script \in Scripts
            /\ cfg = [IdleConfig EXCEPT !.runtime = rt]
            /\ fs = EmptyFs

Init == VerifyIdle /\ InitCall /\ RetryIdle /\ WorkerIdle /\ RunnerIdle /\ HostIdle

InitVerify ==
  /\ v_component \in ComponentNames
  /\ v_artifact \in ResolvedArtifacts
  /\ v_policy \in Policies
  /\ v_result = None
  /\ PipelineIdle
  /\ RunnerIdle
  /\ HostIdle

(***************************************************************************)
(* SpecVerify: verify::verify applied to drawn inputs.                     *)
(***************************************************************************)
VerifyCall ==
  /\ v_result = None
  /\ v_result' = Some(verify(v_component, v_artifact, v_policy))
  /\ UNCHANGED <<v_component, v_artifact, v_policy>>
  /\ UNCHANGED <<callVars, retryVars, workerVars>>
  /\ UNCHANGED <<runnerVars, hostVars>>

NextVerify == VerifyCall

SpecVerify == InitVerify /\ [][NextVerify]_vars

(***************************************************************************)
(* mcp_exec::exec on the blocking worker: crates/mcp-exec/src/lib.rs       *)
(***************************************************************************)
\* resolve::resolve(&req.component, &cfg.store).map_err(ExecError::resolve)?
ExecResolve ==
  /\ w_pc = "resolve"
  /\ LET r == resolve(fs, w_req.component, w_cfg.store) IN
       /\ w_steps' = Append(w_steps, "resolve")
       /\ IF r.ok
          THEN /\ w_resolved' = Some(r.value)
               /\ w_pc' = "verify"
               /\ w_result' = w_result
          ELSE /\ w_resolved' = w_resolved
               /\ w_pc' = "finished"
               /\ w_result' = Some(Ok(Err(ExecErrorResolve(w_req.component, r.err))))
  /\ UNCHANGED <<w_req, w_cfg, w_verified, w_ran>>
  /\ UNCHANGED <<verifyVars, callVars, retryVars>>
  /\ UNCHANGED <<runnerVars, hostVars>>

\* Faulty variant: a verification error is dropped and the artifact goes on to the runner.
ExecVerifyUnchecked ==
  /\ w_pc = "verify"
  /\ w_steps' = Append(w_steps, "verify")
  /\ w_verified' = Some(VerifiedArtifact(w_resolved[1], Some(w_resolved[1].digest), None))
  /\ w_pc' = "runner_new"
  /\ UNCHANGED <<w_req, w_cfg, w_resolved, w_ran, w_result>>
  /\ UNCHANGED <<verifyVars, callVars, retryVars>>
  /\ UNCHANGED <<runnerVars, hostVars>>

\* verify::verify(&req.component, resolved, &cfg.security)
\*   .map_err(ExecError::verification)?
ExecVerify ==
  /\ w_pc = "verify"
  /\ LET v == verify(w_req.component, w_resolved[1], w_cfg.security) IN
       /\ w_steps' = Append(w_steps, "verify")
       /\ IF v.ok
          THEN /\ w_verified' = Some(v.value)
               /\ w_pc' = "runner_new"
               /\ w_result' = w_result
          ELSE /\ w_verified' = w_verified
               /\ w_pc' = "finished"
               /\ w_result' =
                    Some(Ok(Err(ExecErrorVerification(w_req.component, v.err))))
  /\ UNCHANGED <<w_req, w_cfg, w_resolved, w_ran>>
  /\ UNCHANGED <<verifyVars, callVars, retryVars>>
  /\ UNCHANGED <<runnerVars, hostVars>>

\* runner::DefaultRunner::new(&cfg.runtime).map_err(ExecError::runner)?
\* Engine::new succeeds or fails as the host allows.
ExecNewRunner ==
  /\ w_pc = "runner_new"
  /\ w_steps' = Append(w_steps, "runner_new")
  /\ \E engine_ok \in BOOLEAN :
       IF engine_ok
       THEN /\ w_pc' = "run"
            /\ w_result' = w_result
       ELSE /\ w_pc' = "finished"
            /\ w_result' =
                 Some(Ok(Err(ExecErrorRunner(w_req.component, RunnerWasmtime("engine")))))
  /\ UNCHANGED <<w_req, w_cfg, w_resolved, w_verified, w_ran>>
  /\ UNCHANGED <<verifyVars, callVars, retryVars>>
  /\ UNCHANGED <<runnerVars, hostVars>>

\* runner.run(&req, &verified, ctx).map_err(ExecError::runner)
ExecRun ==
  /\ w_pc = "run"
  /\ w_steps' = Append(w_steps, "run")
  /\ w_ran' = w_verified
  /\ \E outcome \in RunOutcomes :
       LET r == RunResult(outcome, w_req, w_cfg) IN
       w_result' = Some(Ok(IF r.ok THEN Ok(r.value)
                           ELSE Err(ExecErrorRunner(w_req.component, r.err))))
  /\ w_pc' = "finished"
  /\ UNCHANGED <<w_req, w_cfg, w_resolved, w_verified>>
  /\ UNCHANGED <<verifyVars, callVars, retryVars>>
  /\ UNCHANGED <<runnerVars, hostVars>>

\* The injected closure of exec_with_retries_backend runs on the worker.
BackendCall ==
  /\ w_pc = "backend"
  /\ w_steps' = Append(w_steps, "backend")
  /\ w_result' = Some(BackendResult(script[invoked], w_req, w_cfg, invoked))
  /\ w_pc' = "finished"
  /\ UNCHANGED <<w_req, w_cfg, w_resolved, w_verified, w_ran>>
  /\ UNCHANGED <<verifyVars, callVars, retryVars>>
  /\ UNCHANGED <<runnerVars, hostVars>>

(***************************************************************************)
(* exec_with_retries_with: greentic-mcp/src/lib.rs                         *)
(***************************************************************************)
\* The for loop's header: the next value of `attempt`, or falling out of the
\* loop onto unreachable!().
LoopHead(next_attempt, max_attempts_) ==
  IF next_attempt <= max_attempts_ THEN "loop" ELSE "unreachable"

\* let max_attempts = cfg.runtime.max_attempts.max(1); the loop starts at 1.
Start ==
  /\ pc = "start"
  /\ max_attempts' = EffectiveMaxAttempts(cfg)
  /\ attempt' = 1
  /\ pc' = LoopHead(1, EffectiveMaxAttempts(cfg))
  /\ UNCHANGED <<req, invoked, hist, sleeps, result>>
  /\ UNCHANGED <<verifyVars, callVars, workerVars>>
  /\ UNCHANGED <<runnerVars, hostVars>>

\* Faulty variant: a retry keeps the artifact verified by an earlier attempt and
\* starts the worker at the runner.
BeginAttemptReuseVerified ==
  /\ pc = "loop"
  /\ req' = WithTenantAttempt(req, attempt)
  /\ w_req' = WithTenantAttempt(req, attempt)
  /\ w_cfg' = cfg
  /\ w_pc' = IF executor # "exec" THEN "backend"
             ELSE IF w_verified # None THEN "run" ELSE "resolve"
  /\ w_steps' = <<>>
  /\ w_ran' = None
  /\ w_result' = None
  /\ invoked' = invoked + 1
  /\ pc' = "awaiting"
  /\ UNCHANGED <<w_resolved, w_verified>>
  /\ UNCHANGED <<max_attempts, attempt, hist, sleeps, result>>
  /\ UNCHANGED <<verifyVars, callVars>>
  /\ UNCHANGED <<runnerVars, hostVars>>

\* Faulty variant: the configuration handed to the worker is cut down to the
\* attempts that are left.
BeginAttemptRemainingBudget ==
  /\ pc = "loop"
  /\ req' = WithTenantAttempt(req, attempt)
  /\ w_req' = WithTenantAttempt(req, attempt)
  /\ w_cfg' = [cfg EXCEPT !.runtime.max_attempts = max_attempts - attempt]
  /\ w_pc' = IF executor = "exec" THEN "resolve" ELSE "backend"
  /\ w_steps' = <<>>
  /\ w_resolved' = None
  /\ w_verified' = None
  /\ w_ran' = None
  /\ w_result' = None
  /\ invoked' = invoked + 1
  /\ pc' = "awaiting"
  /\ UNCHANGED <<max_attempts, attempt, hist, sleeps, result>>
  /\ UNCHANGED <<verifyVars, callVars>>
  /\ UNCHANGED <<runnerVars, hostVars>>

\* Loop body up to the await of spawn_blocking: write tenant.attempt, clone
\* the request and the configuration, start the executor on a blocking worker.
BeginAttempt ==
  /\ pc = "loop"
  /\ req' = WithTenantAttempt(req, attempt)
  /\ w_req' = WithTenantAttempt(req, attempt)
  /\ w_cfg' = cfg
  /\ w_pc' = IF executor = "exec" THEN "resolve" ELSE "backend"
  /\ w_steps' = <<>>
  /\ w_resolved' = None
  /\ w_verified' = None
  /\ w_ran' = None
  /\ w_result' = None
  /\ invoked' = invoked + 1
  /\ pc' = "awaiting"
  /\ UNCHANGED <<max_attempts, attempt, hist, sleeps, result>>
  /\ UNCHANGED <<verifyVars, callVars>>
  /\ UNCHANGED <<runnerVars, hostVars>>

\* Faulty variant: Ok(value) on an attempt before the last does not return but
\* goes on to the backoff and the next attempt.
JoinKeepsGoing ==
  /\ pc = "awaiting"
  /\ w_pc = "finished"
  /\ LET attempt_result == w_result[1] IN
       /\ hist' = Append(hist, [req |-> w_req, cfg |-> w_cfg,
                                 result |-> attempt_result,
                                 steps |-> w_steps, resolved |-> w_resolved,
                                 verified |-> w_verified, ran |-> w_ran])
       /\ IF ~attempt_result.ok
          THEN /\ result' = Some(Err(ExecErrorRunner(req.component,
                                       RunnerInternal("blocking exec failed"))))
               /\ pc' = "done"
               /\ sleeps' = sleeps
          ELSE IF attempt_result.value.ok /\ attempt >= max_attempts
          THEN /\ result' = Some(Ok(attempt_result.value.value))
               /\ pc' = "done"
               /\ sleeps' = sleeps
          ELSE IF ~attempt_result.value.ok
                  /\ ~ShouldRetry(attempt, max_attempts, attempt_result.value.err)
          THEN /\ result' = Some(Err(attempt_result.value.err))
               /\ pc' = "done"
               /\ sleeps' = sleeps
          ELSE /\ result' = result
               /\ pc' = "sleeping"
               /\ sleeps' = Append(sleeps, Backoff(cfg, attempt))
  /\ w_pc' = "idle"
  /\ UNCHANGED <<req, max_attempts, attempt, invoked>>
  /\ UNCHANGED <<w_req, w_cfg, w_steps, w_resolved, w_verified, w_ran, w_result>>
  /\ UNCHANGED <<verifyVars, callVars>>
  /\ UNCHANGED <<runnerVars, hostVars>>

\* Faulty variant: a worker that failed to join is treated like a transient
\* failure and retried while attempts remain.
JoinRetriesJoinFailure ==
  /\ pc = "awaiting"
  /\ w_pc = "finished"
  /\ LET attempt_result == w_result[1] IN
       /\ hist' = Append(hist, [req |-> w_req, cfg |-> w_cfg,
                                 result |-> attempt_result,
                                 steps |-> w_steps, resolved |-> w_resolved,
                                 verified |-> w_verified, ran |-> w_ran])
       /\ IF ~attempt_result.ok /\ attempt >= max_attempts
          THEN /\ result' = Some(Err(ExecErrorRunner(req.component,
                                       RunnerInternal("blocking exec failed"))))
               /\ pc' = "done"
               /\ sleeps' = sleeps
          ELSE IF attempt_result.ok /\ attempt_result.value.ok
          THEN /\ result' = Some(Ok(attempt_result.value.value))
               /\ pc' = "done"
               /\ sleeps' = sleeps
          ELSE IF attempt_result.ok
                  /\ ~ShouldRetry(attempt, max_attempts, attempt_result.value.err)
          THEN /\ result' = Some(Err(attempt_result.value.err))
               /\ pc' = "done"
               /\ sleeps' = sleeps
          ELSE /\ result' = result
               /\ pc' = "sleeping"
               /\ sleeps' = Append(sleeps, Backoff(cfg, attempt))
  /\ w_pc' = "idle"
  /\ UNCHANGED <<req, max_attempts, attempt, invoked>>
  /\ UNCHANGED <<w_req, w_cfg, w_steps, w_resolved, w_verified, w_ran, w_result>>
  /\ UNCHANGED <<verifyVars, callVars>>
  /\ UNCHANGED <<runnerVars, hostVars>>

\* The worker has finished: match attempt_result, then match exec_result, up
\* to the return or the await of sleep(backoff).
Join ==
  /\ pc = "awaiting"
  /\ w_pc = "finished"
  /\ LET attempt_result == w_result[1] IN
       /\ hist' = Append(hist, [req |-> w_req, cfg |-> w_cfg,
                                 result |-> attempt_result,
                                 steps |-> w_steps, resolved |-> w_resolved,
                                 verified |-> w_verified, ran |-> w_ran])
       /\ IF ~attempt_result.ok
          THEN /\ result' = Some(Err(ExecErrorRunner(req.component,
                                       RunnerInternal("blocking exec failed"))))
               /\ pc' = "done"
               /\ sleeps' = sleeps
          ELSE IF attempt_result.value.ok
          THEN /\ result' = Some(Ok(attempt_result.value.value))
               /\ pc' = "done"
               /\ sleeps' = sleeps
          ELSE IF ~ShouldRetry(attempt, max_attempts, attempt_result.value.err)
          THEN /\ result' = Some(Err(attempt_result.value.err))
               /\ pc' = "done"
               /\ sleeps' = sleeps
          ELSE /\ result' = result
               /\ pc' = "sleeping"
               /\ sleeps' = Append(sleeps, Backoff(cfg, attempt))
  /\ w_pc' = "idle"
  /\ UNCHANGED <<req, max_attempts, attempt, invoked>>
  /\ UNCHANGED <<w_req, w_cfg, w_steps, w_resolved, w_verified, w_ran, w_result>>
  /\ UNCHANGED <<verifyVars, callVars>>
  /\ UNCHANGED <<runnerVars, hostVars>>

\* sleep(backoff) has elapsed: the loop moves on to the next attempt.
Wake ==
  /\ pc = "sleeping"
  /\ attempt' = attempt + 1
  /\ pc' = LoopHead(attempt + 1, max_attempts)
  /\ UNCHANGED <<req, max_attempts, invoked, hist, sleeps, result>>
  /\ UNCHANGED <<verifyVars, callVars, workerVars>>
  /\ UNCHANGED <<runnerVars, hostVars>>

Next ==
  \/ Start
  \/ BeginAttempt
  \/ ExecResolve
  \/ ExecVerify
  \/ ExecNewRunner
  \/ ExecRun
  \/ BackendCall
  \/ Join
  \/ Wake

Spec == Init /\ [][Next]_vars

(***************************************************************************)
(* SpecRunner: DefaultRunner::run and run_sync, crates/mcp-exec/src/       *)
(* runner.rs. Time is counted in ticks; a step that is due happens before  *)
(* the next tick, and steps due at the same tick happen in either order.   *)
(***************************************************************************)
InitRunner ==
  /\ VerifyIdle
  /\ PipelineIdle
  /\ r_request \in {ExecRequest("echo", a, "{}", None) : a \in RunnerActions}
  /\ r_bytes \in RunnerBytes
  /\ r_runtime \in RunnerPolicies
  /\ r_http \in BOOLEAN
  /\ r_env \in RunnerEnvs
  /\ ~ComponentFromBinary(r_bytes)
       => r_env \in {[QuietEnv EXCEPT !.setup = s] : s \in 0..MaxSetup}
  /\ ~r_env.returns => r_env.guest = 0 /\ r_env.fault = "none"
  /\ r_env.fault \in {"link", "instantiate", "no_exec", "panic"}
       => r_env.returns /\ r_env.guest = 0
  /\ (r_env.fault # "none" \/ ~r_env.returns)
       => r_env.response = "{\"echo\":\"hi\"}"
  /\ r_clock = 0
  /\ r_pc = "start"
  /\ r_timer = "idle"
  /\ r_future = None
  /\ r_wpc = "idle"
  /\ r_store = None
  /\ r_started = None
  /\ r_measured = None
  /\ r_finished_at = None
  /\ r_wresult = None
  /\ r_result = None
  /\ HostIdle

\* timeout(timeout_duration, run_future): the deadline has passed and
\* run_future has not completed.
TimerDue ==
  /\ r_timer = "armed"
  /\ r_future = None
  /\ r_clock >= r_runtime.per_call_timeout

\* Faulty variant: the worker's result replaces what block_on returned.
FutureOverwritten(future, run_result) == Some(run_result)

\* The output of the timeout future once run_future completes with
\* run_result: a future that has already resolved is not polled again.
FutureAfterWorker(future, run_result) ==
  IF future = None THEN Some(run_result) ELSE future

\* Faulty variant: a duration equal to wallclock_timeout counts as exceeded.
WallclockExceededInclusive(measured, runtime) ==
  measured >= runtime.wallclock_timeout

\* started.elapsed() > runtime.wallclock_timeout
WallclockExceeded(measured, runtime) == measured > runtime.wallclock_timeout

\* The blocking worker has a step to take at the current tick.
WorkerDue ==
  \/ r_wpc = "setup" /\ r_clock >= r_env.setup
  \/ /\ r_wpc = "guest"
     /\ r_env.returns
     /\ r_clock >= r_started[1] + r_env.guest

\* Faulty variant: the thread ends as soon as block_on has returned, without
\* waiting for the blocking task.
ThreadEndsAfterBlockOn == r_future # None

\* The runtime moved into the spawned thread is dropped after block_on
\* returns; dropping a tokio Runtime waits for a blocking task that has
\* started, so the thread ends, and join() returns, only after run_sync.
ThreadCanEnd == r_future # None /\ r_wpc \in {"finished", "panicked"}

\* run, up to thread::spawn(..).join(): build the current-thread runtime,
\* spawn the thread that polls the timeout future, which starts run_sync on a
\* blocking worker.
RunStart ==
  /\ r_pc = "start"
  /\ \E built \in BOOLEAN :
       IF built
       THEN /\ r_pc' = "joining"
            /\ r_timer' = "armed"
            /\ r_wpc' = "setup"
            /\ r_result' = r_result
       ELSE /\ r_pc' = "returned"
            /\ r_result' =
                 Some(Err(RunnerInternal("failed to build timeout runtime")))
            /\ UNCHANGED <<r_timer, r_wpc>>
  /\ UNCHANGED <<r_request, r_bytes, r_runtime, r_http, r_env, r_clock>>
  /\ UNCHANGED <<r_future, r_store, r_started, r_measured, r_finished_at, r_wresult>>
  /\ UNCHANGED <<verifyVars, callVars, retryVars, workerVars, hostVars>>

\* run_sync up to the guest call: compile (or the mock short-circuit), link,
\* create the store, instantiate, look up "exec", take `started`.
WorkerSetup ==
  /\ r_wpc = "setup"
  /\ r_clock >= r_env.setup
  /\ LET mock == try_mock_json(r_bytes, r_request.action)
         early == IF ~ComponentFromBinary(r_bytes)
                  THEN Some(IF mock # None THEN mock[1]
                            ELSE Err(RunnerWasmtime("compile")))
                  ELSE IF r_env.fault \in {"link", "instantiate", "no_exec"}
                  THEN Some(Err(RunnerWasmtime(r_env.fault)))
                  ELSE None
     IN IF early # None
        THEN /\ r_wpc' = "finished"
             /\ r_wresult' = early
             /\ r_future' = FutureAfterWorker(r_future, early[1])
             /\ r_finished_at' = Some(r_clock)
             /\ UNCHANGED <<r_store, r_started>>
        ELSE IF r_env.fault = "panic"
        THEN /\ r_wpc' = "panicked"
             /\ r_future' = FutureAfterWorker(r_future,
                              Err(RunnerInternal("blocking runner task failed")))
             /\ r_finished_at' = Some(r_clock)
             /\ UNCHANGED <<r_wresult, r_store, r_started>>
        ELSE /\ r_wpc' = "guest"
             /\ r_store' = Some(StoreStateNew(r_http))
             /\ r_started' = Some(r_clock)
             /\ UNCHANGED <<r_wresult, r_future, r_finished_at>>
  /\ UNCHANGED <<r_request, r_bytes, r_runtime, r_http, r_env, r_clock>>
  /\ UNCHANGED <<r_pc, r_timer, r_measured, r_result>>
  /\ UNCHANGED <<verifyVars, callVars, retryVars, workerVars, hostVars>>

\* exec.call returns or traps; then the wallclock check and the decoding of
\* the response. The elapsed time is read once for the comparison and once
\* more for the error value.
WorkerGuestReturn ==
  /\ r_wpc = "guest"
  /\ r_env.returns
  /\ r_clock >= r_started[1] + r_env.guest
  /\ LET measured == r_clock - r_started[1]
         value == JsonFromStr(r_env.response)
     IN \E reread \in {measured, measured + 1} :
          LET run_result ==
                IF r_env.fault = "trap" THEN Err(RunnerWasmtime("trap"))
                ELSE IF WallclockExceeded(measured, r_runtime)
                THEN Err(RunnerTimeout(reread))
                ELSE IF value = None THEN Err(RunnerSerde("expected value"))
                ELSE Ok(value[1])
          IN /\ r_wresult' = Some(run_result)
             /\ r_future' = FutureAfterWorker(r_future, run_result)
             /\ r_measured' = IF r_env.fault = "trap" THEN None ELSE Some(measured)
  /\ r_wpc' = "finished"
  /\ r_store' = None
  /\ r_finished_at' = Some(r_clock)
  /\ UNCHANGED <<r_request, r_bytes, r_runtime, r_http, r_env, r_clock>>
  /\ UNCHANGED <<r_pc, r_timer, r_started, r_result>>
  /\ UNCHANGED <<verifyVars, callVars, retryVars, workerVars, hostVars>>

\* The Err(_) arm of the match on timeout(..).await.
TimerFire ==
  /\ TimerDue
  /\ r_timer' = "fired"
  /\ r_future' = Some(Err(RunnerTimeout(r_runtime.per_call_timeout)))
  /\ UNCHANGED <<r_request, r_bytes, r_runtime, r_http, r_env, r_clock>>
  /\ UNCHANGED <<r_pc, r_wpc, r_store, r_started, r_measured, r_finished_at>>
  /\ UNCHANGED <<r_wresult, r_result>>
  /\ UNCHANGED <<verifyVars, callVars, retryVars, workerVars, hostVars>>

\* join() returns the thread's value and run returns it.
RunReturn ==
  /\ r_pc = "joining"
  /\ ThreadCanEnd
  /\ r_result' = r_future
  /\ r_pc' = "returned"
  /\ UNCHANGED <<r_request, r_bytes, r_runtime, r_http, r_env, r_clock>>
  /\ UNCHANGED <<r_timer, r_future, r_wpc, r_store, r_started, r_measured>>
  /\ UNCHANGED <<r_finished_at, r_wresult>>
  /\ UNCHANGED <<verifyVars, callVars, retryVars, workerVars, hostVars>>

\* One tick passes while run is in progress and nothing is due.
Tick ==
  /\ r_pc = "joining"
  /\ r_clock < MaxClock
  /\ ~TimerDue
  /\ ~WorkerDue
  /\ ~ThreadCanEnd
  /\ r_clock' = r_clock + 1
  /\ UNCHANGED <<r_request, r_bytes, r_runtime, r_http, r_env>>
  /\ UNCHANGED <<r_pc, r_timer, r_future, r_wpc, r_store, r_started, r_measured>>
  /\ UNCHANGED <<r_finished_at, r_wresult, r_result>>
  /\ UNCHANGED <<verifyVars, callVars, retryVars, workerVars, hostVars>>

NextRunner ==
  \/ RunStart
  \/ WorkerSetup
  \/ WorkerGuestReturn
  \/ TimerFire
  \/ RunReturn
  \/ Tick

SpecRunner == InitRunner /\ [][NextRunner]_vars

\* Every thread of the invocation that can take a step eventually takes it,
\* and time passes.
SpecRunnerFair ==
  /\ SpecRunner
  /\ WF_vars(RunStart)
  /\ WF_vars(WorkerSetup)
  /\ WF_vars(WorkerGuestReturn)
  /\ WF_vars(TimerFire)
  /\ WF_vars(RunReturn)
  /\ WF_vars(Tick)

(***************************************************************************)
(* SpecHost: a guest calling the host capability API on one store.         *)
(***************************************************************************)
InitHost ==
  /\ VerifyIdle
  /\ PipelineIdle
  /\ RunnerIdle
  /\ h_store \in {StoreStateNew(enabled) : enabled \in BOOLEAN}
  /\ h_log = <<>>
  /\ h_last = None
  /\ h_sent = 0
  /\ h_built = 0
  /\ h_written = {}
  /\ sb_stores = <<>>
  /\ sb_last = None
  /\ FLAKY_ATTEMPTS = 0
  /\ tb_calls = <<>>
  /\ ToolIdle

HostHttpRequest ==
  /\ Len(h_log) < MaxHostCalls
  /\ \E method \in HostMethods, url \in HostUrls, headers \in HostHeaders,
        body \in HostBodies, net \in NetOutcomes :
       LET r == http_request(h_store, method, url, headers, body, net) IN
       /\ h_store' = r.state
       /\ h_sent' = h_sent + r.sent
       /\ h_built' = h_built + r.built
       /\ h_last' = Some([fn |-> "http_request",
                          args |-> <<method, url, headers, body>>,
                          net |-> Some(net),
                          ret |-> r.ret])
  /\ h_log' = Append(h_log, "http_request")
  /\ UNCHANGED h_written
  /\ UNCHANGED <<verifyVars, callVars, retryVars, workerVars, runnerVars>>
  /\ UNCHANGED <<sandboxVars, testVars, toolVars>>

HostSecretGet ==
  /\ Len(h_log) < MaxHostCalls
  /\ \E name \in HostSecretNames :
       h_last' = Some([fn |-> "secret_get", args |-> <<name>>, net |-> None,
                       ret |-> secret_get(h_store, name)])
  /\ h_log' = Append(h_log, "secret_get")
  /\ UNCHANGED <<h_store, h_sent, h_built, h_written>>
  /\ UNCHANGED <<verifyVars, callVars, retryVars, workerVars, runnerVars>>
  /\ UNCHANGED <<sandboxVars, testVars, toolVars>>

HostKvGet ==
  /\ Len(h_log) < MaxHostCalls
  /\ \E key \in HostKvKeys :
       h_last' = Some([fn |-> "kv_get", args |-> <<"ns", key>>, net |-> None,
                       ret |-> kv_get(h_store, "ns", key)])
  /\ h_log' = Append(h_log, "kv_get")
  /\ UNCHANGED <<h_store, h_sent, h_built, h_written>>
  /\ UNCHANGED <<verifyVars, callVars, retryVars, workerVars, runnerVars>>
  /\ UNCHANGED <<sandboxVars, testVars, toolVars>>

HostKvPut ==
  /\ Len(h_log) < MaxHostCalls
  /\ \E key \in HostKvKeys :
       /\ h_last' = Some([fn |-> "kv_put", args |-> <<"ns", key, "val">>,
                          net |-> None,
                          ret |-> kv_put(h_store, "ns", key, "val")])
       /\ h_written' = h_written \cup {<<"ns", key>>}
  /\ h_log' = Append(h_log, "kv_put")
  /\ UNCHANGED <<h_store, h_sent, h_built>>
  /\ UNCHANGED <<verifyVars, callVars, retryVars, workerVars, runnerVars>>
  /\ UNCHANGED <<sandboxVars, testVars, toolVars>>

NextHost ==
  \/ HostHttpRequest
  \/ HostSecretGet
  \/ HostKvGet
  \/ HostKvPut

SpecHost == InitHost /\ [][NextHost]_vars

(***************************************************************************)
(* SpecSandbox: several runner invocations of one process, concurrent or   *)
(* one after the other (retries), each with the store that run_sync        *)
(* creates for it: crates/mcp-exec/src/runner.rs, run_sync.                *)
(* A sandbox is [state: StoreState, memory: what the guest instance holds, *)
(* open: the store is alive, calls: what this invocation has done].        *)
(***************************************************************************)
\* Faulty variant: a later invocation is handed the store and the instance of
\* the invocation before it.
NewSandboxReused(stores, http_enabled) ==
  IF stores = <<>>
  THEN [state |-> StoreStateNew(http_enabled), memory |-> {},
        open |-> TRUE, calls |-> {}]
  ELSE [stores[Len(stores)] EXCEPT !.open = TRUE, !.calls = {}]

\* Linker::new, Store::new(&engine, StoreState::new(http_enabled)),
\* linker.instantiate: nothing is taken from an earlier invocation.
NewSandbox(stores, http_enabled) ==
  [state |-> StoreStateNew(http_enabled), memory |-> {},
   open |-> TRUE, calls |-> {}]

InitSandbox ==
  /\ VerifyIdle
  /\ PipelineIdle
  /\ RunnerIdle
  /\ h_store = StoreStateNew(FALSE)
  /\ h_log = <<>>
  /\ h_last = None
  /\ h_sent = 0
  /\ h_built = 0
  /\ h_written = {}
  /\ sb_stores = <<>>
  /\ sb_last = None
  /\ FLAKY_ATTEMPTS = 0
  /\ tb_calls = <<>>
  /\ ToolIdle

SandboxFrame ==
  /\ UNCHANGED <<h_store, h_log, h_last, h_sent, h_built, h_written, testVars, toolVars>>
  /\ UNCHANGED <<verifyVars, callVars, retryVars, workerVars, runnerVars>>

\* run_sync up to the guest call, for a call of exec or an attempt of one.
SandboxOpen ==
  /\ Len(sb_stores) < MaxSandboxes
  /\ \E http_enabled \in BOOLEAN :
       sb_stores' = Append(sb_stores, NewSandbox(sb_stores, http_enabled))
  /\ sb_last' = Some([inv |-> Len(sb_stores) + 1, fn |-> "open", ret |-> Ok(<<>>)])
  /\ SandboxFrame

\* The guest of invocation k calls http_request on its own store.
SandboxHttpRequest(k) ==
  /\ sb_stores[k].open
  /\ \E net \in {NetOutcome(TRUE, TRUE, 200, TRUE), NetOutcome(FALSE, TRUE, 200, TRUE)} :
       LET r == http_request(sb_stores[k].state, "GET", "https://example.test/", <<>>, "", net)
       IN  /\ sb_stores' = [sb_stores EXCEPT ![k].state = r.state,
                                             ![k].calls = @ \cup {"http_request"}]
           /\ sb_last' = Some([inv |-> k, fn |-> "http_request", ret |-> r.ret])
  /\ SandboxFrame

\* The guest of invocation k calls kv_put on its own store.
SandboxKvPut(k) ==
  /\ sb_stores[k].open
  /\ sb_stores' = [sb_stores EXCEPT ![k].calls = @ \cup {"kv_put"}]
  /\ sb_last' = Some([inv |-> k, fn |-> "kv_put",
                      ret |-> kv_put(sb_stores[k].state, "ns", "key", "val")])
  /\ SandboxFrame

\* The guest of invocation k calls kv_get for the key kv_put is given.
SandboxKvGet(k) ==
  /\ sb_stores[k].open
  /\ sb_last' = Some([inv |-> k, fn |-> "kv_get",
                      ret |-> kv_get(sb_stores[k].state, "ns", "key")])
  /\ UNCHANGED sb_stores
  /\ SandboxFrame

\* The guest of invocation k writes a value of its own into its memory.
SandboxGuestWrite(k) ==
  /\ sb_stores[k].open
  /\ sb_stores' = [sb_stores EXCEPT ![k].memory = @ \cup {k},
                                    ![k].calls = @ \cup {"guest_write"}]
  /\ sb_last' = Some([inv |-> k, fn |-> "guest_write", ret |-> Ok(<<>>)])
  /\ SandboxFrame

\* The guest of invocation k reads what its memory holds.
SandboxGuestRead(k) ==
  /\ sb_stores[k].open
  /\ sb_last' = Some([inv |-> k, fn |-> "guest_read", ret |-> Ok(sb_stores[k].memory)])
  /\ UNCHANGED sb_stores
  /\ SandboxFrame

\* run_sync returns: store, instance and linker are dropped.
SandboxClose(k) ==
  /\ sb_stores[k].open
  /\ sb_stores' = [sb_stores EXCEPT ![k].open = FALSE]
  /\ sb_last' = Some([inv |-> k, fn |-> "close", ret |-> Ok(<<>>)])
  /\ SandboxFrame

NextSandbox ==
  \/ SandboxOpen
  \/ \E k \in 1..Len(sb_stores) : SandboxHttpRequest(k)
  \/ \E k \in 1..Len(sb_stores) : SandboxKvPut(k)
  \/ \E k \in 1..Len(sb_stores) : SandboxKvGet(k)
  \/ \E k \in 1..Len(sb_stores) : SandboxGuestWrite(k)
  \/ \E k \in 1..Len(sb_stores) : SandboxGuestRead(k)
  \/ \E k \in 1..Len(sb_stores) : SandboxClose(k)

SpecSandbox == InitSandbox /\ [][NextSandbox]_vars

(***************************************************************************)
(* SpecTestBackend: a process calling exec_test_backend several times:     *)
(* greentic-mcp/src/lib.rs (exec_test_backend), test_tools.rs.             *)
(***************************************************************************)
NativeEcho == [kind |-> "NativeEcho"]

NativeFlaky == [kind |-> "NativeFlaky"]

NativeTimeout(sleep) == [kind |-> "NativeTimeout", sleep |-> sleep]

TestBackends == {NativeEcho, NativeFlaky, NativeTimeout(1), NativeTimeout(5)}

TestInputs == {"{\"message\":\"hello\"}", "{}"}

\* test_tools::flaky_echo: FLAKY_ATTEMPTS.fetch_add(1), an error while the
\* value read is below 2. The counter stays far below the width of usize.
flaky_echo(input, flaky_attempts) ==
  [ret |-> IF flaky_attempts < 2 THEN Err("transient.echo") ELSE Ok(input),
   flaky_attempts |-> flaky_attempts + 1]

\* exec_test_backend(backend, input, cfg), with the static counter passed in
\* and out.
exec_test_backend(backend, input, cfg_, flaky_attempts) ==
  CASE backend.kind = "NativeEcho" ->
         [ret |-> Ok(input), flaky_attempts |-> flaky_attempts]
    [] backend.kind = "NativeFlaky" ->
         LET r == flaky_echo(input, flaky_attempts) IN
         [ret |-> IF r.ret.ok THEN r.ret
                  ELSE Err(ExecErrorTool("echo-flaky", "tool-invoke",
                                         "transient.echo",
                                         JObject([k \in {"message"} |->
                                                    JString(r.ret.err)]))),
          flaky_attempts |-> r.flaky_attempts]
    [] OTHER ->
         [ret |-> IF backend.sleep > cfg_.runtime.per_call_timeout
                  THEN Err(ExecErrorRunner("echo-timeout",
                             RunnerTimeout(cfg_.runtime.per_call_timeout)))
                  ELSE Ok(input),
          flaky_attempts |-> flaky_attempts]

InitTestBackend ==
  /\ VerifyIdle
  /\ PipelineIdle
  /\ RunnerIdle
  /\ h_store = StoreStateNew(FALSE)
  /\ h_log = <<>>
  /\ h_last = None
  /\ h_sent = 0
  /\ h_built = 0
  /\ h_written = {}
  /\ sb_stores = <<>>
  /\ sb_last = None
  /\ FLAKY_ATTEMPTS = 0
  /\ tb_calls = <<>>
  /\ ToolIdle

TestBackendCall ==
  /\ Len(tb_calls) < MaxBackendCalls
  /\ \E backend \in TestBackends, input \in TestInputs :
       LET r == exec_test_backend(backend, input, cfg, FLAKY_ATTEMPTS) IN
       /\ FLAKY_ATTEMPTS' = r.flaky_attempts
       /\ tb_calls' = Append(tb_calls, [backend |-> backend, input |-> input,
                                         ret |-> r.ret])
  /\ UNCHANGED <<h_store, h_log, h_last, h_sent, h_built, h_written, sandboxVars, toolVars>>
  /\ UNCHANGED <<verifyVars, callVars, retryVars, workerVars, runnerVars>>

NextTestBackend == TestBackendCall

SpecTestBackend == InitTestBackend /\ [][NextTestBackend]_vars

(***************************************************************************)
(* SpecBackoff: retry::backoff applied to drawn inputs.                    *)
(***************************************************************************)
\* base.as_millis(): zero, small, the default of ToolRef, and bases whose
\* product with 2^16 lies above u64::MAX.
BackoffBases == {0, 1, 3, 8, 200, 1000}

BackoffAttempts == {0, 1, 2, 3, 15, 16, 17, 100}

\* 0.5, 0.75, 1.0, 1.25, 1.5
Jitters == {2, 3, 4, 5, 6}

BackoffFrame ==
  /\ UNCHANGED <<h_store, h_log, h_last, h_sent, h_built, h_written, sandboxVars, testVars>>
  /\ UNCHANGED <<verifyVars, callVars, retryVars, workerVars, runnerVars>>

InitBackoff ==
  /\ VerifyIdle
  /\ PipelineIdle
  /\ RunnerIdle
  /\ h_store = StoreStateNew(FALSE)
  /\ h_log = <<>>
  /\ h_last = None
  /\ h_sent = 0
  /\ h_built = 0
  /\ h_written = {}
  /\ sb_stores = <<>>
  /\ sb_last = None
  /\ FLAKY_ATTEMPTS = 0
  /\ tb_calls = <<>>
  /\ b_base \in BackoffBases
  /\ b_attempt \in BackoffAttempts
  /\ b_jitter \in Jitters
  /\ b_result = None
  /\ i_tool = ToolRef("echo", None, None, None)
  /\ i_pc = "idle"
  /\ i_attempts = 0
  /\ i_attempt = 0
  /\ i_log = <<>>
  /\ i_sleeps = <<>>
  /\ i_result = None

BackoffCall ==
  /\ b_result = None
  /\ b_result' = Some(retry_backoff(b_base, b_attempt, b_jitter))
  /\ UNCHANGED <<b_base, b_attempt, b_jitter, invokeVars>>
  /\ BackoffFrame

NextBackoff == BackoffCall

SpecBackoff == InitBackoff /\ [][NextBackoff]_vars

(***************************************************************************)
(* SpecInvoke: WasixExecutor::invoke, greentic-mcp/src/executor.rs.        *)
(* An attempt is exec_once under the tool's timeout: what invoke_blocking  *)
(* returns, and whether it takes longer than the timeout would allow.      *)
(***************************************************************************)
McpTimeout(name, timeout) == [type |-> "Timeout", name |-> name, timeout |-> timeout]

McpTransient(name, msg) == [type |-> "Transient", name |-> name, msg |-> msg]

McpExecutionFailed(msg) == [type |-> "ExecutionFailed", msg |-> msg]

McpInternal(msg) == [type |-> "Internal", msg |-> msg]

\* Faulty variant: the addition wraps around.
WrappingAdd32(a, b) == (a + b) % (U32_MAX + 1)

\* u32::saturating_add
SaturatingAdd32(a, b) == Min(a + b, U32_MAX)

\* What invoke_blocking and its join give: output bytes that are JSON, output
\* bytes that are not, a guest trap, another wasmtime or I/O failure, a
\* JoinError of the blocking task.
AttemptKinds == {"ok", "bad_json", "trap", "fatal", "join_error"}

ToolOutputPayload == "{\"hello\":\"world\"}"

InvokeTools ==
  {ToolRef("echo", t, m, b) :
     t \in {None, Some(50)},
     m \in {None, Some(0), Some(1), Some(2), Some(U32_MAX)},
     b \in {None, Some(0)}}

InvokeJitters == {2, 6}

\* Faulty variant: the last permitted attempt is followed by one more.
LastAttemptOffByOne(attempt_, attempts_) == attempt_ >= attempts_

\* attempt + 1 >= attempts
LastAttempt(attempt_, attempts_) == attempt_ + 1 >= attempts_

\* Faulty variant: an elapsed timeout counts as a transient failure.
TimeoutResultTransient(tool, kind) ==
  [kind |-> "trap", msg |-> "timeout"]

\* Err(_) => return Err(McpError::timeout(&tool.name, duration))
TimeoutResult(tool, kind) ==
  [kind |-> "return", value |-> Err(McpTimeout(tool.name, ToolTimeout(tool)[1]))]

\* The head of `for attempt in 0..attempts`: the body runs while the range
\* has an element, after it the function falls through to its last line.
InvokeLoopHead(next_attempt, attempts_) ==
  IF next_attempt < attempts_
  THEN /\ i_pc' = "loop"
       /\ i_result' = i_result
  ELSE /\ i_pc' = "returned"
       /\ i_result' = Some(Err(McpInternal("unreachable retry loop")))

InvokeFrame ==
  /\ UNCHANGED <<h_store, h_log, h_last, h_sent, h_built, h_written, sandboxVars, testVars>>
  /\ UNCHANGED <<verifyVars, callVars, retryVars, workerVars, runnerVars>>
  /\ UNCHANGED backoffVars

InitInvoke ==
  /\ VerifyIdle
  /\ PipelineIdle
  /\ RunnerIdle
  /\ h_store = StoreStateNew(FALSE)
  /\ h_log = <<>>
  /\ h_last = None
  /\ h_sent = 0
  /\ h_built = 0
  /\ h_written = {}
  /\ sb_stores = <<>>
  /\ sb_last = None
  /\ FLAKY_ATTEMPTS = 0
  /\ tb_calls = <<>>
  /\ b_base = 0
  /\ b_attempt = 0
  /\ b_jitter = 4
  /\ b_result = None
  /\ i_tool \in InvokeTools
  /\ i_pc = "start"
  /\ i_attempts = 0
  /\ i_attempt = 0
  /\ i_log = <<>>
  /\ i_sleeps = <<>>
  /\ i_result = None

\* invoke up to the loop: attempts, timeout_duration, base_backoff.
InvokeStart ==
  /\ i_pc = "start"
  /\ i_attempts' = SaturatingAdd32(ToolMaxRetries(i_tool), 1)
  /\ i_attempt' = 0
  /\ InvokeLoopHead(0, SaturatingAdd32(ToolMaxRetries(i_tool), 1))
  /\ UNCHANGED <<i_tool, i_log, i_sleeps>>
  /\ InvokeFrame

\* One iteration of the loop up to its return or the await of sleep(backoff).
InvokeAttempt ==
  /\ i_pc = "loop"
  /\ \E kind \in AttemptKinds, slow \in BOOLEAN, jitter \in InvokeJitters :
       LET timed_out == ToolTimeout(i_tool) # None /\ slow
           step ==
             IF timed_out THEN TimeoutResult(i_tool, kind)
             ELSE CASE kind = "ok" ->
                         [kind |-> "return", value |-> Ok(ToolOutputPayload)]
                    [] kind = "bad_json" ->
                         [kind |-> "return",
                          value |-> Err(McpExecutionFailed("invalid tool output JSON"))]
                    [] kind = "trap" -> [kind |-> "trap", msg |-> "wasm trap"]
                    [] kind = "fatal" ->
                         [kind |-> "return",
                          value |-> Err(McpExecutionFailed("tool failed"))]
                    [] OTHER ->
                         [kind |-> "return",
                          value |-> Err(McpInternal("spawn_blocking failed"))]
       IN
       /\ i_log' = Append(i_log, [kind |-> kind, slow |-> slow])
       /\ IF step.kind = "return"
          THEN /\ i_result' = Some(step.value)
               /\ i_pc' = "returned"
               /\ i_sleeps' = i_sleeps
          ELSE IF LastAttempt(i_attempt, i_attempts)
          THEN /\ i_result' = Some(Err(McpTransient(i_tool.name, step.msg)))
               /\ i_pc' = "returned"
               /\ i_sleeps' = i_sleeps
          ELSE /\ i_sleeps' = Append(i_sleeps,
                                retry_backoff(ToolRetryBackoff(i_tool), i_attempt, jitter))
               /\ i_pc' = "sleeping"
               /\ i_result' = i_result
  /\ UNCHANGED <<i_tool, i_attempts, i_attempt>>
  /\ InvokeFrame

\* sleep(backoff) has elapsed: the loop goes on with the next attempt.
InvokeWake ==
  /\ i_pc = "sleeping"
  /\ i_attempt' = i_attempt + 1
  /\ InvokeLoopHead(i_attempt + 1, i_attempts)
  /\ UNCHANGED <<i_tool, i_attempts, i_log, i_sleeps>>
  /\ InvokeFrame

NextInvoke ==
  \/ InvokeStart
  \/ InvokeAttempt
  \/ InvokeWake

SpecInvoke == InitInvoke /\ [][NextInvoke]_vars

(***************************************************************************)
(* SpecLoops: either retry loop, exec_with_retries or invoke, is called.   *)
(***************************************************************************)
InitLoops == Init \/ InitInvoke

NextLoops == Next \/ NextInvoke

SpecLoops == InitLoops /\ [][NextLoops]_vars

(***************************************************************************)
(* SpecAttempts: a call of exec_with_retries, or one invocation of         *)
(* DefaultRunner::run as an attempt's pipeline makes it.                   *)
(***************************************************************************)
InitAttempts == Init \/ InitRunner

NextAttempts == Next \/ NextRunner

SpecAttempts == InitAttempts /\ [][NextAttempts]_vars

(***************************************************************************)
(* SpecExec: one call of mcp_exec::exec against a local store, over the    *)
(* file systems, search roots and component names the resolver can meet.   *)
(***************************************************************************)
ExecComponents == {"echo", "echo.wasm", "echo.component"}

ExecRoots == {"/r1", "/r2"}

ExecFileNames == {"echo", "echo.wasm", "echo.component", "echo.component.wasm"}

ExecPaths == {PathJoin(r, n) : r \in ExecRoots, n \in ExecFileNames}

\* What a path can be: a readable regular file, a regular file whose read
\* fails, or a directory.
ExecEntries ==
  {[kind |-> "file", bytes |-> b] : b \in ArtifactBytes}
    \cup {[kind |-> "unreadable"], [kind |-> "dir"]}

\* File systems with at most two entries under the search roots.
ExecFileSystems ==
  UNION {[paths -> ExecEntries] :
           paths \in {ps \in SUBSET ExecPaths : Cardinality(ps) <= 2}}

ExecStores ==
  {LocalStore(roots, ext) :
     roots \in {<<>>, <<"/r1">>, <<"/r1", "/r2">>, <<"/r2", "/r1">>},
     ext \in {None, Some("wasm")}}

\* An operator either allows unverified artifacts or pins the component to
\* the digest of one artifact.
ExecSecurity(component) ==
  {VerifyPolicy(TRUE, [n \in {} |-> ""], <<>>),
   VerifyPolicy(FALSE, [n \in {component} |-> "a0"], <<>>)}

InitExec ==
  /\ VerifyIdle
  /\ RunnerIdle
  /\ HostIdle
  /\ executor = "exec"
  /\ script = [i \in 1..ScriptLen |-> "ok"]
  /\ fs \in ExecFileSystems
  /\ \E c \in ExecComponents, st \in ExecStores :
       /\ req = ExecRequest(c, "tool-invoke", "{}", None)
       /\ \E pol \in ExecSecurity(c) :
            cfg = ExecConfig(st, pol, IdleConfig.runtime, FALSE)
  /\ pc = "start"
  /\ max_attempts = 0
  /\ attempt = 0
  /\ invoked = 0
  /\ hist = <<>>
  /\ sleeps = <<>>
  /\ result = None
  /\ w_pc = "resolve"
  /\ w_req = req
  /\ w_cfg = cfg
  /\ w_steps = <<>>
  /\ w_resolved = None
  /\ w_verified = None
  /\ w_ran = None
  /\ w_result = None

NextExec ==
  \/ ExecResolve
  \/ ExecVerify
  \/ ExecNewRunner
  \/ ExecRun

SpecExec == InitExec /\ [][NextExec]_vars

(***************************************************************************)
(* Properties.                                                             *)
(***************************************************************************)
IsPrefix(a, b) == Len(a) <= Len(b) /\ SubSeq(b, 1, Len(a)) = a

PipelineSteps == <<"resolve", "verify", "runner_new", "run">>

Contains(seq, x) == \E i \in 1..Len(seq) : seq[i] = x

\* C1: within one call of exec the steps run in the order resolve, verify,
\* run; the runner is built and invoked only after verify accepted the
\* artifact that resolve returned in that same call, it is handed exactly that
\* artifact, and a failed resolve or verify ends the call with the matching
\* error before any runner exists.
C1_ResolveVerifyRun ==
  executor = "exec" /\ w_steps # <<>> =>
    LET r == resolve(fs, w_req.component, w_cfg.store)
        v == verify(w_req.component, r.value, w_cfg.security)
    IN  /\ IsPrefix(w_steps, PipelineSteps)
        /\ Contains(w_steps, "runner_new") =>
             /\ r.ok
             /\ w_resolved = Some(r.value)
             /\ v.ok
             /\ w_verified = Some(v.value)
             /\ w_verified[1].resolved = w_resolved[1]
        /\ Contains(w_steps, "run") <=> w_ran # None
        /\ w_ran # None => w_ran = w_verified
        /\ ~r.ok =>
             /\ w_steps = <<"resolve">>
             /\ w_result = Some(Ok(Err(ExecErrorResolve(w_req.component, r.err))))
        /\ r.ok /\ Contains(w_steps, "verify") /\ ~v.ok =>
             /\ w_steps = <<"resolve", "verify">>
             /\ w_result = Some(Ok(Err(ExecErrorVerification(w_req.component, v.err))))

\* Witness of C1: the runner has run on an artifact admitted by a required digest.
C1_Witness ==
  /\ executor = "exec"
  /\ w_steps = PipelineSteps
  /\ w_ran # None
  /\ "echo" \in DOMAIN cfg.security.required_digests

\* C2: when the policy holds a required digest d for the component, verify
\* succeeds exactly when the resolved digest equals d, whatever
\* allow_unverified and trusted_signers are, and otherwise fails with
\* DigestMismatch{expected: d, actual: resolved digest}.
C2_RequiredDigestDecides ==
  v_result # None /\ v_component \in DOMAIN v_policy.required_digests =>
    LET d == v_policy.required_digests[v_component] IN
    /\ v_result[1].ok <=> v_artifact.digest = d
    /\ ~v_result[1].ok => v_result[1].err = DigestMismatch(d, v_artifact.digest)

\* Witness of C2: a wrong required digest rejects although allow_unverified is set.
C2_Witness ==
  /\ v_result # None
  /\ v_component \in DOMAIN v_policy.required_digests
  /\ v_policy.allow_unverified
  /\ v_policy.trusted_signers # <<>>
  /\ v_policy.required_digests[v_component] # v_artifact.digest
  /\ ~v_result[1].ok

\* u8::to_ascii_lowercase on the hex letters
AsciiLower(c) ==
  CASE c = "A" -> "a" [] c = "B" -> "b" [] c = "C" -> "c"
    [] c = "D" -> "d" [] c = "E" -> "e" [] c = "F" -> "f"
    [] OTHER -> c

RECURSIVE ToAsciiLowercase(_)
ToAsciiLowercase(s) ==
  IF Len(s) = 0 THEN ""
  ELSE AsciiLower(SubSeq(s, 1, 1)) \o ToAsciiLowercase(SubSeq(s, 2, Len(s)))

\* str::eq_ignore_ascii_case
EqIgnoreAsciiCase(a, b) == ToAsciiLowercase(a) = ToAsciiLowercase(b)

\* C3: a required digest that differs from the resolved digest only in the
\* case of its hex letters is accepted by verify.
C3_CaseInsensitiveDigest ==
  /\ v_result # None
  /\ v_component \in DOMAIN v_policy.required_digests
  /\ EqIgnoreAsciiCase(v_policy.required_digests[v_component], v_artifact.digest)
  => v_result[1].ok

\* C4: with no required digest for the component, verify fails with
\* UnsignedRejected when allow_unverified is false and accepts when it is true.
C4_UnsignedPolicy ==
  v_result # None /\ v_component \notin DOMAIN v_policy.required_digests =>
    /\ ~v_policy.allow_unverified => v_result[1] = Err(UnsignedRejected)
    /\ v_policy.allow_unverified =>
         /\ v_result[1].ok
         /\ v_result[1].value.resolved = v_artifact

\* Witness of C4: an artifact rejected as unsigned while another component has an entry.
C4_Witness ==
  /\ v_result # None
  /\ v_component \notin DOMAIN v_policy.required_digests
  /\ DOMAIN v_policy.required_digests # {}
  /\ ~v_policy.allow_unverified
  /\ v_result[1] = Err(UnsignedRejected)

\* Transient as the specification words it: a runner timeout, or a tool error
\* whose code starts with "transient.".
SpecTransient(e) ==
  \/ e.type = "Runner" /\ e.source.type = "Timeout"
  \/ e.type = "Tool" /\ StartsWith(e.code, "transient.")

\* The scripted pipeline fails transiently on invocations 1..k-1 and returns Ok on the k-th.
FirstOkAt(k) ==
  /\ script[k] = "ok"
  /\ \A i \in 1..(k - 1) : script[i] \in {"timeout", "tool_transient_dot"}

C7_AttemptBounds ==
  /\ invoked <= Max(cfg.runtime.max_attempts, 1)
  /\ pc \in {"done", "unreachable"} => invoked >= 1
  /\ pc = "done" /\ cfg.runtime.max_attempts \in {0, 1} =>
       /\ invoked = 1
       /\ sleeps = <<>>
       /\ Len(hist) = 1
       /\ hist[1].result.ok => result = Some(hist[1].result.value)

\* Witness of C7: a call configured with max_attempts = 0 that failed transiently once.
C7_Witness ==
  /\ pc = "done"
  /\ cfg.runtime.max_attempts = 0
  /\ invoked = 1
  /\ hist[1].result.ok
  /\ ~hist[1].result.value.ok
  /\ SpecTransient(hist[1].result.value.err)

\* C8 as stated: the n-th sleep is base_backoff * n, saturating at the maximum
\* duration when the product overflows.
C8_SaturatingBackoff ==
  \A n \in 1..Len(sleeps) :
    sleeps[n] = IF cfg.runtime.base_backoff * n > MaxDuration
                THEN MaxDuration
                ELSE cfg.runtime.base_backoff * n

RECURSIVE SumSeq(_)
SumSeq(seq) == IF seq = <<>> THEN 0 ELSE Head(seq) + SumSeq(Tail(seq))

\* C8 (amended): after a transient failure on attempt n < max_attempts the call
\* sleeps base_backoff * n before attempt n+1, so success on attempt k costs
\* base_backoff * (1 + ... + (k-1)) in total; when base_backoff * n overflows
\* the duration type the sleep is base_backoff itself.
C8_LinearBackoff ==
  /\ \A n \in 1..Len(sleeps) :
       /\ n < max_attempts
       /\ hist[n].result.ok /\ ~hist[n].result.value.ok
       /\ SpecTransient(hist[n].result.value.err)
       /\ sleeps[n] = IF cfg.runtime.base_backoff * n > MaxDuration
                      THEN cfg.runtime.base_backoff
                      ELSE cfg.runtime.base_backoff * n
  /\ pc \in {"loop", "awaiting"} => Len(sleeps) = attempt - 1
  /\ pc = "done" /\ result[1].ok
       /\ cfg.runtime.base_backoff * (invoked - 1) <= MaxDuration =>
       2 * SumSeq(sleeps) = cfg.runtime.base_backoff * invoked * (invoked - 1)

\* Witness of C8: two sleeps, the second one after an overflowing product.
C8_Witness ==
  /\ Len(sleeps) = 2
  /\ cfg.runtime.base_backoff < MaxDuration
  /\ cfg.runtime.base_backoff * 2 > MaxDuration
  /\ pc = "done"
  /\ result[1].ok

\* C9: when the last allowed attempt fails with a transient error, the call
\* returns that attempt's error without sleeping after it; with
\* max_attempts = 1 that is one invocation and no sleep.
C9_LastAttemptError ==
  /\ Len(hist) >= max_attempts /\ pc # "start" => pc = "done"
  /\ /\ pc = "done"
     /\ Len(hist) = max_attempts
     /\ hist[max_attempts].result.ok
     /\ ~hist[max_attempts].result.value.ok
     /\ SpecTransient(hist[max_attempts].result.value.err)
     => /\ result = Some(Err(hist[max_attempts].result.value.err))
        /\ invoked = max_attempts
        /\ Len(sleeps) = max_attempts - 1

\* Witness of C9: three transient failures, the last of another kind than the first.
C9_Witness ==
  /\ pc = "done"
  /\ max_attempts = 3
  /\ Len(hist) = 3
  /\ script[1] = "timeout"
  /\ script[3] = "tool_transient_dot"
  /\ result = Some(Err(hist[3].result.value.err))
  /\ result[1].err.type = "Tool"
  /\ Len(sleeps) = 2

\* C10 as stated: a call that returns Ok invoked the tool exactly once.
C10_ExactlyOnce ==
  pc = "done" /\ result[1].ok => invoked = 1

\* C10 (amended): when a call returns Ok, exactly one invocation of that call
\* succeeded, it was the last one and its value is the result; the earlier
\* invocations, at most max(max_attempts, 1) - 1 of them, failed transiently.
C10_OneSuccessLast ==
  pc = "done" /\ result[1].ok =>
    /\ invoked = Len(hist)
    /\ invoked >= 1
    /\ invoked <= Max(cfg.runtime.max_attempts, 1)
    /\ hist[invoked].result = Ok(Ok(result[1].value))
    /\ \A i \in 1..(invoked - 1) :
         /\ hist[i].result.ok
         /\ ~hist[i].result.value.ok
         /\ SpecTransient(hist[i].result.value.err)

\* Witness of C10: Ok returned by the third invocation of the call.
C10_Witness ==
  /\ pc = "done"
  /\ result[1].ok
  /\ invoked = 3
  /\ Len(hist) = 3

IsSuccess(attempt_result) == attempt_result.ok /\ attempt_result.value.ok

\* C11: when exec_with_retries returns an error, the executor was invoked at
\* least once in that call and none of its invocations returned a success; an
\* invocation that returns a success is the last one of the call and its value
\* is the call's result.
C11_ErrorMeansNoSuccess ==
  /\ (pc = "done" /\ ~result[1].ok)
       => /\ invoked >= 1
          /\ Len(hist) = invoked
          /\ \A i \in 1..Len(hist) : ~IsSuccess(hist[i].result)
  /\ \A i \in 1..Len(hist) :
       IsSuccess(hist[i].result)
         => /\ i = Len(hist)
            /\ i = invoked
            /\ pc = "done"
            /\ result = Some(Ok(hist[i].result.value.value))

C11_Witness ==
  /\ pc = "done"
  /\ ~result[1].ok
  /\ invoked = 2
  /\ max_attempts = 3
  /\ \A i \in 1..Len(hist) : ~IsSuccess(hist[i].result)

StepCount(step) ==
  Cardinality({i \in 1..Len(hist) : Contains(hist[i].steps, step)})
    + (IF pc = "awaiting" /\ Contains(w_steps, step) THEN 1 ELSE 0)

\* C12 (as stated): within one call of exec_with_retries the resolver and the
\* verifier each run at most once, whatever the number of attempts.
C12_ResolveVerifyOnce ==
  executor = "exec" => StepCount("resolve") <= 1 /\ StepCount("verify") <= 1

\* C12 (amended): the retry loop wraps the whole pipeline. Every invocation of
\* exec made by the loop starts at the resolver, an invocation reaches the
\* runner only through its own resolve and verify steps, and a call that has
\* finished n invocations has resolved n times.
C12_PipelinePerAttempt ==
  executor = "exec"
    => /\ \A i \in 1..Len(hist) :
            /\ hist[i].steps # <<>>
            /\ hist[i].steps[1] = "resolve"
            /\ Contains(hist[i].steps, "run") => hist[i].steps = PipelineSteps
       /\ pc = "done" => StepCount("resolve") = invoked

C12_Witness ==
  /\ executor = "exec"
  /\ pc = "done"
  /\ invoked = 3
  /\ StepCount("resolve") = 3
  /\ StepCount("verify") = 3
  /\ StepCount("run") = 3

\* C13: the request handed to the executor on attempt n carries
\* tenant.attempt = n - 1 when the caller's request has a tenant, so the
\* invocations of one call see 0, 1, 2, ... in order; a request without a
\* tenant is handed over without one; nothing else of the request changes.
C13_TenantAttempt ==
  /\ \A i \in 1..Len(hist) :
       hist[i].req =
         IF req.tenant = None THEN req
         ELSE [req EXCEPT !.tenant = Some([req.tenant[1] EXCEPT !.attempt = i - 1])]
  /\ pc = "awaiting"
       => /\ attempt = Len(hist) + 1
          /\ w_req = req
          /\ req.tenant # None => req.tenant[1].attempt = attempt - 1

C13_Witness ==
  /\ Len(hist) = 3
  /\ req.tenant # None
  /\ hist[1].req.tenant[1].attempt = 0
  /\ hist[2].req.tenant[1].attempt = 1
  /\ hist[3].req.tenant[1].attempt = 2

\* The value run reports when the per-call deadline wins.
DeadlineTimeout == Some(Err(RunnerTimeout(r_runtime.per_call_timeout)))

\* C14 (T1): when the per-call deadline passes before the runner invocation
\* has completed, run returns Timeout with elapsed equal to per_call_timeout.
C14_DeadlineReturnsTimeout ==
  (r_timer = "fired") ~> (r_pc = "returned" /\ r_result = DeadlineTimeout)

\* What run returns once it returns: Timeout{per_call_timeout} when the worker
\* ended after the deadline, and a success only when the worker ended no later
\* than the deadline.
T1_ValueOnReturn ==
  /\ (r_pc = "returned" /\ r_finished_at # None
        /\ r_finished_at[1] > r_runtime.per_call_timeout)
       => r_result = DeadlineTimeout
  /\ (r_result # None /\ r_result[1].ok)
       => /\ r_finished_at # None
          /\ r_finished_at[1] <= r_runtime.per_call_timeout
          /\ r_started # None => r_env.guest <= r_runtime.per_call_timeout
  /\ (r_timer = "armed" /\ r_clock > r_runtime.per_call_timeout)
       => r_finished_at # None /\ r_finished_at[1] <= r_runtime.per_call_timeout

\* C15: once the per-call deadline has fired, run has returned Timeout to its
\* caller by the next tick, whether or not the blocking worker has finished.
C15_TimeoutDoesNotWait ==
  (r_timer = "fired" /\ r_clock > r_runtime.per_call_timeout)
    => r_pc = "returned"

C17_ExactlyOneOutcome ==
  /\ r_pc # "returned" => r_result = None
  /\ r_timer = "fired"
       => /\ r_future = DeadlineTimeout
          /\ r_pc = "returned" => r_result = DeadlineTimeout
  /\ (r_pc = "returned" /\ r_timer = "armed")
       => r_result =
            IF r_wpc = "panicked"
            THEN Some(Err(RunnerInternal("blocking runner task failed")))
            ELSE r_wresult

C17_Witness ==
  /\ r_pc = "returned"
  /\ r_timer = "fired"
  /\ r_finished_at = Some(r_runtime.per_call_timeout)
  /\ r_wresult # None
  /\ r_wresult[1].ok
  /\ r_result = DeadlineTimeout

\* The mock shape: UTF-8 JSON whose root is an object with "_mock_mcp_exec"
\* equal to the boolean true and with a member "responses" that is an object.
MockShape(bytes) ==
  /\ from_utf8(bytes) # None
  /\ JsonFromStr(from_utf8(bytes)[1]) # None
  /\ LET root == JsonFromStr(from_utf8(bytes)[1])[1] IN
       /\ root.t = "object"
       /\ "_mock_mcp_exec" \in DOMAIN root.v
       /\ root.v["_mock_mcp_exec"].t = "bool"
       /\ root.v["_mock_mcp_exec"].v
       /\ "responses" \in DOMAIN root.v
       /\ root.v["responses"].t = "object"

MockResponses(bytes) == JsonFromStr(from_utf8(bytes)[1])[1].v["responses"].v

\* C18: when the bytes do not compile and have the mock shape, run_sync
\* returns responses[action] if that member exists and ActionNotFound{action}
\* otherwise, without creating a store or calling the guest; bytes that
\* compile never take the mock path.
C18_MockShortCircuit ==
  r_wpc = "finished"
    => /\ (~ComponentFromBinary(r_bytes) /\ MockShape(r_bytes))
            => /\ r_wresult =
                    Some(IF r_request.action \in DOMAIN MockResponses(r_bytes)
                         THEN Ok(MockResponses(r_bytes)[r_request.action])
                         ELSE Err(RunnerActionNotFound(r_request.action)))
               /\ r_started = None
               /\ r_store = None
               /\ (r_pc = "returned" /\ r_timer # "fired") => r_result = r_wresult
       /\ ComponentFromBinary(r_bytes)
            => /\ r_wresult[1].ok => r_started # None
               /\ ~r_wresult[1].ok => r_wresult[1].err.type # "ActionNotFound"

C18_Witness ==
  /\ r_pc = "returned"
  /\ MockShape(r_bytes)
  /\ r_request.action = "tool-invoke"
  /\ r_result = Some(Ok(MockResponse))
  /\ r_started = None

\* C19: when the bytes do not compile and do not have the mock shape,
\* run_sync returns the compile error, never a mock response and never
\* ActionNotFound.
C19_CompileErrorSurfaces ==
  (r_wpc = "finished" /\ ~ComponentFromBinary(r_bytes) /\ ~MockShape(r_bytes))
    => /\ r_wresult = Some(Err(RunnerWasmtime("compile")))
       /\ (r_pc = "returned" /\ r_timer # "fired") => r_result = r_wresult

C19_Witness ==
  /\ r_pc = "returned"
  /\ r_bytes = "{\"_mock_mcp_exec\":\"true\",\"responses\":{\"tool-invoke\":{\"echo\":\"hi\"}}}"
  /\ r_result = Some(Err(RunnerWasmtime("compile")))

\* C20: on a store created with http_enabled = false every http_request
\* returns Err("http-disabled"), whatever its method, url, headers and body
\* and whatever host calls came before it, and nothing is put on the network.
C20_HttpDisabled ==
  ~h_store.http_enabled
    => /\ h_sent = 0
       /\ h_store.http_client = None
       /\ (h_last # None /\ h_last[1].fn = "http_request")
            => h_last[1].ret = Ok(Err("http-disabled"))

C20_Witness ==
  /\ ~h_store.http_enabled
  /\ h_log = <<"kv_put", "http_request", "http_request">>
  /\ h_last[1].args[1] = "???"
  /\ h_last[1].args[4] = Some("payload")
  /\ h_last[1].ret = Ok(Err("http-disabled"))
  /\ h_sent = 0

\* C21: on every store, enabled or not, and after any host calls,
\* secret_get returns Err("secrets-disabled") for every name, kv_get returns
\* absent for every key, a key passed to kv_put before included, and neither
\* of them nor kv_put changes the store.
C21_StubCapabilities ==
  /\ h_last # None
       => /\ h_last[1].fn = "secret_get"
               => h_last[1].ret = Ok(Err("secrets-disabled"))
          /\ h_last[1].fn = "kv_get" => h_last[1].ret = Ok(None)
          /\ h_last[1].fn = "kv_put" => h_last[1].ret = Ok(<<>>)
  /\ h_store.http_client # None => Contains(h_log, "http_request")
  /\ h_sent > 0 => Contains(h_log, "http_request")

C21_Witness ==
  /\ h_store.http_enabled
  /\ Len(h_log) >= 2
  /\ h_log[Len(h_log) - 1] = "kv_put"
  /\ h_last[1].fn = "kv_get"
  /\ <<h_last[1].args[1], h_last[1].args[2]>> \in h_written
  /\ h_last[1].ret = Ok(None)

\* C22: the host-level call of each of the four host functions succeeds for
\* every input; http_request returns a body only when the capability is
\* enabled, the method and the headers are valid, the request was sent and
\* answered with a 2xx status and the body was read, and every failure is a
\* message in the error arm of the returned value.
C22_HostNeverTraps ==
  h_last # None
    => /\ h_last[1].ret.ok
       /\ h_last[1].fn = "http_request"
            => IF h_last[1].ret.value.ok
               THEN /\ h_store.http_enabled
                    /\ MethodFromBytes(h_last[1].args[1])
                    /\ apply_headers(h_last[1].args[3]) = None
                    /\ h_last[1].net[1].send_ok
                    /\ h_last[1].net[1].status = 200
                    /\ h_last[1].net[1].body_ok
                    /\ h_sent >= 1
               ELSE Len(h_last[1].ret.value.err) > 0

C22_Witness ==
  /\ h_last # None
  /\ h_last[1].fn = "http_request"
  /\ h_store.http_enabled
  /\ h_last[1].ret = Ok(Err("invalid-header-value:x-trace: a\nb"))

\* The candidate names as the specification lists them: the name verbatim,
\* the name with the expected extension appended unless it already ends
\* with it, <name>.wasm, <name>.component.wasm.
AppendedCandidates(component, extension) ==
  <<component>>
    \o (IF extension # None /\ ~EndsWith(component, "." \o extension[1])
        THEN <<component \o "." \o extension[1]>> ELSE <<>>)
    \o <<component \o ".wasm", component \o ".component.wasm">>

\* C23: the resolver tries, in each root, the name verbatim, then the name
\* with the expected extension appended, then <name>.wasm, then
\* <name>.component.wasm, and the first regular file wins; so the file that
\* exec resolved is the first hit of that list, and its file name starts with
\* the full component name (also for a name that contains a dot).
C23_CandidateOrder ==
  w_resolved # None =>
    LET component == w_req.component
        store == w_cfg.store
        path == w_resolved[1].origin.path
    IN  /\ ResolveInRoots(fs, store.search_paths,
                          AppendedCandidates(component, store.expected_extension))
             = Ok(w_resolved[1])
        /\ \E i \in 1..Len(store.search_paths), n \in ExecFileNames :
             /\ path = PathJoin(store.search_paths[i], n)
             /\ StartsWith(n, component)

\* Some candidate name of the call is a regular file in this root.
HasCandidateFile(root) ==
  \E n \in {PathJoin(root, c) :
              c \in {candidate_file_names(w_req.component,
                                          w_cfg.store.expected_extension)[k] :
                       k \in 1..Len(candidate_file_names(w_req.component,
                                          w_cfg.store.expected_extension))}} :
    IsFile(fs, n)

\* C24: roots are scanned in declared order and root order dominates
\* candidate order: the resolved artifact comes from the first root that holds
\* any candidate name as a regular file, whatever later roots hold, and its
\* origin is the path that matched (the bytes are the bytes of that file).
C24_RootOrder ==
  LET roots == w_cfg.store.search_paths IN
  /\ w_resolved # None =>
       \E i \in 1..Len(roots) :
         /\ HasCandidateFile(roots[i])
         /\ \A j \in 1..(i - 1) : ~HasCandidateFile(roots[j])
         /\ StartsWith(w_resolved[1].origin.path, roots[i] \o "/")
         /\ IsFile(fs, w_resolved[1].origin.path)
         /\ w_resolved[1].bytes = fs[w_resolved[1].origin.path].bytes
  /\ (Contains(w_steps, "resolve") /\ w_resolved = None) =>
       \/ \A i \in 1..Len(roots) : ~HasCandidateFile(roots[i])
       \/ w_result[1].value.err.source.type = "Io"

\* C24 witness: /r1 holds only a later candidate (echo.wasm), /r2 holds the
\* name verbatim, and the artifact was taken from /r1.
C24_Witness ==
  /\ w_req.component = "echo"
  /\ w_cfg.store.search_paths = <<"/r1", "/r2">>
  /\ IsFile(fs, "/r2/echo")
  /\ w_resolved # None
  /\ w_resolved[1].origin.path = "/r1/echo.wasm"

\* The candidate paths of the call in scan order: root by root, and inside a
\* root name by name.
ScanNames == candidate_file_names(w_req.component, w_cfg.store.expected_extension)

ScanPath(i, k) == PathJoin(w_cfg.store.search_paths[i], ScanNames[k])

ScanPositions ==
  (1..Len(w_cfg.store.search_paths)) \X (1..Len(ScanNames))

ScannedBefore(a, b) == a[1] < b[1] \/ (a[1] = b[1] /\ a[2] < b[2])

\* The path exists and is a regular file (readable or not).
RegularFile(path) ==
  path \in DOMAIN fs /\ fs[path].kind \in {"file", "unreadable"}

\* C25: when the first candidate path in scan order that is a regular file
\* cannot be read, resolve fails with Io for that path: exec ends after the
\* resolve step with ExecError::Resolve carrying that source, never NotFound,
\* and no later candidate or root is used.
C25_UnreadableIsIo ==
  Contains(w_steps, "resolve") =>
    \A pos \in ScanPositions :
      ( /\ RegularFile(ScanPath(pos[1], pos[2]))
        /\ fs[ScanPath(pos[1], pos[2])].kind = "unreadable"
        /\ \A before \in ScanPositions :
             ScannedBefore(before, pos) => ~RegularFile(ScanPath(before[1], before[2])) )
      => /\ w_resolved = None
         /\ w_steps = <<"resolve">>
         /\ w_pc = "finished"
         /\ w_result =
              Some(Ok(Err(ExecErrorResolve(
                w_req.component,
                [type |-> "Io", path |-> ScanPath(pos[1], pos[2])]))))

\* C25 witness: /r1/echo cannot be read, the readable /r1/echo.wasm is the
\* next candidate, and exec has returned the Io error.
C25_Witness ==
  /\ w_req.component = "echo"
  /\ w_cfg.store.search_paths = <<"/r1">>
  /\ RegularFile("/r1/echo") /\ fs["/r1/echo"].kind = "unreadable"
  /\ RegularFile("/r1/echo.wasm") /\ fs["/r1/echo.wasm"].kind = "file"
  /\ w_result # None
  /\ ~w_result[1].value.ok
  /\ w_result[1].value.err.source.type = "Io"

\* C26: when no candidate name is a regular file in any root (the list of
\* roots may be empty, and a candidate may exist as a directory only),
\* resolve fails with NotFound and exec returns ExecError::Resolve naming the
\* component with that source, without invoking the verifier or the runner.
C26_NotFound ==
  ( /\ Contains(w_steps, "resolve")
    /\ \A pos \in ScanPositions : ~RegularFile(ScanPath(pos[1], pos[2])) )
  => /\ w_result =
          Some(Ok(Err(ExecErrorResolve(w_req.component, [type |-> "NotFound"]))))
     /\ w_pc = "finished"
     /\ w_steps = <<"resolve">>
     /\ w_resolved = None
     /\ w_verified = None
     /\ w_ran = None

\* C26 witness: the name exists in the only root as a directory, another
\* root that is not searched holds a regular file, and exec has returned
\* NotFound.
C26_Witness ==
  /\ w_req.component = "echo"
  /\ w_cfg.store.search_paths = <<"/r1">>
  /\ "/r1/echo" \in DOMAIN fs /\ fs["/r1/echo"].kind = "dir"
  /\ RegularFile("/r2/echo")
  /\ w_result =
       Some(Ok(Err(ExecErrorResolve("echo", [type |-> "NotFound"]))))

LowerHexChars ==
  {"0", "1", "2", "3", "4", "5", "6", "7", "8", "9", "a", "b", "c", "d", "e", "f"}

\* The digest the specification defines for a byte buffer: one lowercase hex
\* character per nibble of the hash of exactly these bytes.
IsDigestOf(digest, bytes) ==
  /\ digest = HexEncode(Sha256(bytes))
  /\ Len(digest) = Len(Sha256(bytes))
  /\ \A k \in 1..Len(digest) : SubSeq(digest, k, k) \in LowerHexChars

\* C27: the digest is a deterministic function of the artifact bytes in
\* lowercase hex; every resolved and every verified artifact carries the
\* digest of its own bytes; resolving the unchanged file again (a later
\* attempt of the call) yields the same digest; and a policy that requires
\* the digest the first resolve returned accepts every later resolve of the
\* unchanged file, whose digest is the one handed to the runner.
C27_DigestDeterministic ==
  /\ w_resolved # None => IsDigestOf(w_resolved[1].digest, w_resolved[1].bytes)
  /\ w_verified # None =>
       IsDigestOf(w_verified[1].resolved.digest, w_verified[1].resolved.bytes)
  /\ \A i \in 1..Len(hist) :
       /\ hist[i].resolved # None =>
            /\ IsDigestOf(hist[i].resolved[1].digest, hist[i].resolved[1].bytes)
            /\ hist[i].resolved[1].bytes = fs[hist[i].resolved[1].origin.path].bytes
            /\ hist[1].resolved # None
            /\ hist[i].resolved[1].digest = hist[1].resolved[1].digest
            /\ Get(cfg.security.required_digests, req.component)
                 = Some(hist[1].resolved[1].digest)
               => /\ hist[i].verified # None
                  /\ Contains(hist[i].steps, "verify")
       /\ hist[i].verified # None =>
            IsDigestOf(hist[i].verified[1].resolved.digest,
                       hist[i].verified[1].resolved.bytes)
       /\ hist[i].ran # None =>
            /\ hist[i].resolved # None
            /\ hist[i].ran[1].resolved.digest = hist[i].resolved[1].digest

\* C27 witness: the policy requires the digest of the first resolve and does
\* not allow unverified artifacts, and a second attempt has resolved the
\* unchanged file, passed the verifier and run with that digest.
C27_Witness ==
  /\ Len(hist) >= 2
  /\ hist[1].resolved # None
  /\ ~cfg.security.allow_unverified
  /\ Get(cfg.security.required_digests, req.component)
       = Some(hist[1].resolved[1].digest)
  /\ hist[2].ran # None
  /\ hist[2].ran[1].resolved.digest = hist[1].resolved[1].digest
  /\ hist[2].ran[1].verified_digest = Some(hist[1].resolved[1].digest)

\* C28: any two runner invocations, concurrent calls or successive retries,
\* have separate stores, capability state and HTTP clients: a store holds an
\* HTTP client only if its own invocation made an enabled http_request, a
\* guest memory holds only what its own invocation wrote, kv_get finds
\* nothing another invocation has put, and a retry starts from a fresh
\* sandbox.
C28_SandboxIsolation ==
  /\ \A k \in 1..Len(sb_stores) :
       /\ sb_stores[k].state.http_client # None =>
            sb_stores[k].state.http_enabled /\ "http_request" \in sb_stores[k].calls
       /\ sb_stores[k].memory \subseteq {k}
       /\ sb_stores[k].memory # {} => "guest_write" \in sb_stores[k].calls
  /\ sb_last # None =>
       /\ sb_last[1].fn = "open" =>
            /\ sb_stores[sb_last[1].inv].state.http_client = None
            /\ sb_stores[sb_last[1].inv].memory = {}
       /\ sb_last[1].fn = "kv_get" => sb_last[1].ret = Ok(None)
       /\ sb_last[1].fn = "guest_read" =>
            sb_last[1].ret = Ok(IF "guest_write" \in sb_stores[sb_last[1].inv].calls
                                THEN {sb_last[1].inv} ELSE {})

\* C28 witness: the first invocation built an HTTP client, wrote to its
\* memory, called kv_put and ended; the second one, with HTTP enabled, reads
\* an empty memory and still has no client.
C28_Witness ==
  /\ Len(sb_stores) >= 2
  /\ ~sb_stores[1].open
  /\ sb_stores[1].state.http_client # None
  /\ sb_stores[1].memory = {1}
  /\ "kv_put" \in sb_stores[1].calls
  /\ sb_stores[2].open
  /\ sb_stores[2].state.http_enabled
  /\ sb_stores[2].state.http_client = None
  /\ sb_last # None
  /\ sb_last[1].inv = 2
  /\ sb_last[1].fn = "guest_read"
  /\ sb_last[1].ret.value = {}

\* C29: the store of an invocation is created inside it and released on
\* every exit path (success, decode error, trap, wallclock timeout); after the
\* per-call deadline (T1) has fired the blocked guest is torn down or its
\* store abandoned, so the store does not stay alive for as long as the guest
\* keeps running.
C29_StoreReleased ==
  /\ r_wpc \in {"finished", "panicked"} => r_store = None
  /\ r_pc = "returned" => r_store = None
  /\ (r_timer = "fired" /\ r_clock > r_runtime.per_call_timeout) => r_store = None

\* C30: the core keeps no process-wide mutable state: the outcome of an
\* invocation depends only on its request and configuration, so the same
\* input against the same backend gives the same outcome every time in one
\* process, however many invocations the process made before.
C30_NoProcessWideState ==
  \A i, j \in 1..Len(tb_calls) :
    (tb_calls[i].backend = tb_calls[j].backend /\ tb_calls[i].input = tb_calls[j].input)
      => tb_calls[i].ret = tb_calls[j].ret

\* max(base in ms, 1) * 2^min(attempt, 16), before any cap.
BackoffProduct(base, attempt_) == Max(base, 1) * Pow2(Min(attempt_, 16))

\* C31: retry::backoff(base, attempt) is at least 1 ms and lies within
\* [0.5, 1.5] times max(base in ms, 1) * 2^min(attempt, 16), rounded and
\* capped at u64::MAX milliseconds (the cap applies to the jittered value);
\* attempts above 16 have the range of attempt 16 and a zero base counts as
\* 1 ms.
C31_BackoffRange ==
  b_result # None =>
    LET product == BackoffProduct(b_base, b_attempt) IN
    /\ b_result[1] >= 1
    /\ b_result[1] >= Clamp(RoundQuarters(product * 2), 1, U64_MAX)
    /\ b_result[1] <= Clamp(RoundQuarters(product * 6), 1, U64_MAX)

\* C31 as amended: the product is capped at u64::MAX first and the jitter is
\* applied to the capped value, so the result is at least 1 ms, at most
\* u64::MAX ms and within [0.5, 1.5] times min(product, u64::MAX), rounded;
\* attempts above 16 give what attempt 16 gives and a zero base what 1 ms
\* gives.
C31_BackoffRangeCapped ==
  b_result # None =>
    LET capped == Min(BackoffProduct(b_base, b_attempt), U64_MAX) IN
    /\ b_result[1] >= 1
    /\ b_result[1] <= U64_MAX
    /\ b_result[1] = Clamp(RoundQuarters(capped * b_jitter), 1, U64_MAX)
    /\ 4 * b_result[1] + 2 >= 2 * capped
    /\ b_result[1] <= Min(RoundQuarters(capped * 6), U64_MAX)
    /\ b_attempt > 16 => b_result[1] = retry_backoff(b_base, 16, b_jitter)
    /\ b_base = 0 => b_result[1] = retry_backoff(1, b_attempt, b_jitter)

\* C31 witness: a zero base at an attempt above 16 with the lowest jitter
\* gives half of 2^16 ms.
C31_Witness ==
  /\ b_base = 0
  /\ b_attempt > 16
  /\ b_jitter = 2
  /\ b_result = Some(32768)

\* C32: trusted_signers is never consulted: for every component name,
\* artifact and policy, a policy that differs only in trusted_signers gives
\* the same verify outcome (same acceptance, same error, same
\* VerifiedArtifact).
C32_SignersIgnored ==
  v_result # None =>
    \A signers \in SignerLists :
      verify(v_component, v_artifact, [v_policy EXCEPT !.trusted_signers = signers])
        = v_result[1]

\* C32 witness: a policy with a trusted signer has accepted an artifact
\* whose digest it requires.
C32_Witness ==
  /\ v_policy.trusted_signers = <<"alice">>
  /\ Get(v_policy.required_digests, v_component) = Some(v_artifact.digest)
  /\ v_result # None
  /\ v_result[1].ok

\* C40: whenever verify succeeds, the VerifiedArtifact carries the resolved
\* artifact unchanged (same origin, same bytes, same digest), has
\* verified_signer = None and verified_digest = Some(resolved.digest), also
\* when the artifact was accepted only because allow_unverified is true and
\* no digest was required.
C40_VerifiedArtifactFields ==
  (v_result # None /\ v_result[1].ok) =>
    /\ v_result[1].value.resolved = v_artifact
    /\ v_result[1].value.resolved.origin = v_artifact.origin
    /\ v_result[1].value.resolved.bytes = v_artifact.bytes
    /\ v_result[1].value.resolved.digest = v_artifact.digest
    /\ v_result[1].value.verified_signer = None
    /\ v_result[1].value.verified_digest = Some(v_artifact.digest)
    /\ v_result[1].value.verified_digest = Some(compute_digest(v_artifact.bytes))

\* C40 witness: accepted with no digest required for the component, through
\* allow_unverified alone.
C40_Witness ==
  /\ v_policy.allow_unverified
  /\ Get(v_policy.required_digests, v_component) = None
  /\ v_result # None
  /\ v_result[1].ok

\* Attempt k of the invoke call did not complete within the tool's timeout.
AttemptTimedOut(k) == ToolTimeout(i_tool) # None /\ i_log[k].slow

\* Attempts 1..n of the invoke call all ended in a guest trap.
TrapsUpTo(n) ==
  \A k \in 1..n : i_log[k].kind = "trap" /\ ~AttemptTimedOut(k)

\* C33: if an attempt of invoke does not complete within the tool's timeout,
\* invoke returns McpError::Timeout for that tool at once: the timeout is not
\* a transient failure, no further attempt and no sleep follows even when
\* retries remain; a tool with no timeout configured is never timed out.
C33_TimeoutIsFinal ==
  /\ \A k \in 1..Len(i_log) :
       AttemptTimedOut(k) =>
         /\ k = Len(i_log)
         /\ i_pc = "returned"
         /\ i_result = Some(Err(McpTimeout(i_tool.name, ToolTimeout(i_tool)[1])))
         /\ Len(i_sleeps) = k - 1
  /\ (i_result # None /\ ~i_result[1].ok /\ i_result[1].err.type = "Timeout") =>
       /\ ToolTimeout(i_tool) # None
       /\ i_log[Len(i_log)].slow

\* C33 witness: two retries are configured, the first attempt overran the
\* timeout, and invoke has returned Timeout after that single attempt.
C33_Witness ==
  /\ i_tool.max_retries = Some(2)
  /\ i_tool.timeout_ms = Some(50)
  /\ Len(i_log) = 1
  /\ i_log[1].slow
  /\ i_pc = "returned"
  /\ i_result = Some(Err(McpTimeout("echo", 50)))

\* C34: invoke makes at most max_retries + 1 attempts (saturating); after
\* k traps followed by a success it returns the output if and only if
\* max_retries >= k, otherwise Transient from the last attempt; a failure
\* that is not a trap is returned at once; no sleep follows the last attempt.
C34_RetryBudget ==
  (i_pc = "returned" /\ i_log # <<>>) =>
    LET n == Len(i_log)
        last == i_log[n]
    IN  /\ n <= SaturatingAdd32(ToolMaxRetries(i_tool), 1)
        /\ TrapsUpTo(n - 1)
        /\ Len(i_sleeps) = n - 1
        /\ ~AttemptTimedOut(n) =>
             /\ last.kind = "ok" =>
                  /\ i_result = Some(Ok(ToolOutputPayload))
                  /\ ToolMaxRetries(i_tool) >= n - 1
             /\ last.kind = "trap" =>
                  /\ i_result = Some(Err(McpTransient(i_tool.name, "wasm trap")))
                  /\ ~(ToolMaxRetries(i_tool) >= n)
             /\ last.kind \in {"bad_json", "fatal", "join_error"} =>
                  /\ i_result # None
                  /\ ~i_result[1].ok
                  /\ i_result[1].err.type \in {"ExecutionFailed", "Internal"}

\* C34 as amended: the attempts number min(max_retries + 1, u32::MAX); after
\* k traps followed by a success invoke returns the output if and only if
\* k is below that number, and Transient from the last attempt exactly when
\* all of them trapped; a failure that is not a trap is returned at once; no
\* sleep follows the last attempt.
C34_RetryBudgetSaturating ==
  (i_pc = "returned" /\ i_log # <<>>) =>
    LET n == Len(i_log)
        last == i_log[n]
        budget == Min(ToolMaxRetries(i_tool) + 1, U32_MAX)
    IN  /\ n <= budget
        /\ TrapsUpTo(n - 1)
        /\ Len(i_sleeps) = n - 1
        /\ ~AttemptTimedOut(n) =>
             /\ last.kind = "ok" =>
                  /\ i_result = Some(Ok(ToolOutputPayload))
                  /\ n - 1 < budget
             /\ last.kind = "trap" =>
                  /\ i_result = Some(Err(McpTransient(i_tool.name, "wasm trap")))
                  /\ n = budget
             /\ last.kind = "bad_json" =>
                  i_result = Some(Err(McpExecutionFailed("invalid tool output JSON")))
             /\ last.kind = "fatal" =>
                  i_result = Some(Err(McpExecutionFailed("tool failed")))
             /\ last.kind = "join_error" =>
                  i_result = Some(Err(McpInternal("spawn_blocking failed")))

\* C34 witness: two retries, two traps and then a success: the output is
\* returned after three attempts and two sleeps.
C34_Witness ==
  /\ i_tool.max_retries = Some(2)
  /\ Len(i_log) = 3
  /\ TrapsUpTo(2)
  /\ i_log[3].kind = "ok"
  /\ Len(i_sleeps) = 2
  /\ i_result = Some(Ok(ToolOutputPayload))

\* C36: neither retry loop falls through: exec_with_retries never reaches
\* its unreachable!() and invoke never returns Internal("unreachable retry
\* loop"), for every max_attempts and max_retries (including 0 and the
\* largest value) and every sequence of attempt outcomes.
C36_NoFallThrough ==
  /\ pc # "unreachable"
  /\ i_result # Some(Err(McpInternal("unreachable retry loop")))
  /\ i_pc = "returned" => i_log # <<>>
  /\ pc = "done" => invoked >= 1

\* C36 witness: with max_retries at the largest value every attempt trapped
\* and invoke returned Transient from the last one.
C36_Witness ==
  /\ i_tool.max_retries = Some(U32_MAX)
  /\ i_pc = "returned"
  /\ Len(i_log) = i_attempts
  /\ i_result = Some(Err(McpTransient("echo", "wasm trap")))

\* C35: attempts of one exec_with_retries call never overlap. The worker of an
\* attempt is busy only while the loop awaits it, the number of invocations
\* started exceeds the number joined by at most one, attempt n + 1 starts
\* only after attempt n has been joined and its backoff slept, and
\* DefaultRunner::run, which an attempt's pipeline calls and waits for, has
\* returned, with Timeout too, only after the blocking runner task and the
\* guest it started have ended and the store is gone.
C35_AttemptsNeverOverlap ==
  /\ w_pc # "idle" => pc = "awaiting"
  /\ invoked = Len(hist) + (IF pc = "awaiting" THEN 1 ELSE 0)
  /\ pc = "awaiting" => invoked = attempt
  /\ pc = "loop" => Len(hist) = attempt - 1 /\ Len(sleeps) = attempt - 1
  /\ r_pc = "returned" =>
       /\ r_wpc \in {"idle", "finished", "panicked"}
       /\ r_store = None
       /\ r_wpc = "idle" => r_timer = "idle"

C35_Witness ==
  /\ executor = "exec"
  /\ pc = "awaiting"
  /\ attempt = 2
  /\ Len(hist) = 1
  /\ Len(sleeps) = 1
  /\ hist[1].result.ok
  /\ ~hist[1].result.value.ok
  /\ hist[1].result.value.err.type = "Runner"
  /\ hist[1].result.value.err.source.type = "Timeout"
  /\ w_pc = "run"

\* C37: across the attempts of one exec_with_retries call the pipeline is
\* handed the same component, action and args and a configuration equal to
\* the caller's; between the requests of two attempts only tenant.attempt
\* differs, and the caller's configuration stays as it was handed in.
C37_SameInputsEveryAttempt ==
  /\ \A i \in 1..Len(hist) :
       /\ hist[i].cfg = cfg
       /\ hist[i].req.component = req.component
       /\ hist[i].req.action = req.action
       /\ hist[i].req.args = req.args
       /\ \A j \in 1..Len(hist) :
            \/ hist[i].req = hist[j].req
            \/ /\ hist[i].req.tenant # None
               /\ hist[j].req.tenant # None
               /\ hist[i].req =
                    [hist[j].req EXCEPT !.tenant =
                       Some([hist[j].req.tenant[1] EXCEPT
                               !.attempt = hist[i].req.tenant[1].attempt])]
  /\ pc = "awaiting" =>
       /\ w_cfg = cfg
       /\ w_req.component = req.component
       /\ w_req.action = req.action
       /\ w_req.args = req.args
  /\ pc \in {"awaiting", "sleeping", "loop", "done"} =>
       max_attempts = Max(cfg.runtime.max_attempts, 1)

C37_Witness ==
  /\ Len(hist) = 3
  /\ req.tenant # None
  /\ hist[1].req # hist[3].req
  /\ hist[1].req.args = hist[3].req.args
  /\ hist[1].cfg = hist[3].cfg
  /\ hist[3].cfg = cfg
  /\ cfg.runtime.max_attempts = 3

\* What every state of a store's capability state satisfies: a client only
\* on a store with http_enabled, only after an http_request, and constructed
\* exactly once.
HttpClientInv ==
  /\ h_store.http_client # None => h_store.http_enabled
  /\ h_store.http_client # None => Contains(h_log, "http_request")
  /\ h_built <= 1
  /\ (h_store.http_client # None) = (h_built = 1)

\* What every host call leaves alone: the flag, and a client once it exists.
HttpClientFrame ==
  /\ h_store'.http_enabled = h_store.http_enabled
  /\ h_store.http_client # None =>
       /\ h_store'.http_client = h_store.http_client
       /\ h_built' = h_built

\* C38 as stated: an HTTP client exists only if http_enabled is true; it is
\* constructed at most once per store, on the first http_request that passes
\* the enabled check, so that after such a call the store has a client; every
\* later call reuses it; http_enabled never changes.
C38_LazyHttpClient ==
  /\ [](HttpClientInv
        /\ (h_store.http_enabled /\ Contains(h_log, "http_request")
              => h_store.http_client # None))
  /\ [][HttpClientFrame]_vars

\* C38, amended: an HTTP client exists only if http_enabled is true; it is
\* constructed at most once per store, by the first http_request that passes
\* the enabled check and whose client build succeeds (until then nothing is
\* put on the network); every later call reuses it; http_enabled never
\* changes.
C38_LazyHttpClientOnceBuilt ==
  /\ [](HttpClientInv
        /\ (h_store.http_client = None => h_sent = 0)
        /\ (h_store.http_enabled /\ h_store.http_client = None /\ h_last # None
              /\ h_last[1].fn = "http_request"
              => h_last[1].ret = Ok(Err("http-client: builder error"))))
  /\ [][HttpClientFrame]_vars

C38_Witness ==
  /\ h_store.http_enabled
  /\ h_log = <<"http_request", "http_request", "http_request">>
  /\ h_store.http_client # None
  /\ h_built = 1
  /\ h_sent = 2

\* C39: an attempt whose blocking worker failed to join is the last one:
\* exec_with_retries returns ExecError::Runner for the request's component
\* with an Internal source at once, with no sleep and no further attempt,
\* whatever number of attempts remains. Likewise, when the blocking task
\* inside DefaultRunner::run fails to join, the timeout future resolves to an
\* Internal runner error and run returns it, not a value and not a Timeout.
C39_JoinFailureIsInternal ==
  /\ \A i \in 1..Len(hist) :
       ~hist[i].result.ok =>
         /\ i = Len(hist)
         /\ invoked = i
         /\ Len(sleeps) = i - 1
         /\ pc = "done"
         /\ result # None
         /\ ~result[1].ok
         /\ result[1].err.type = "Runner"
         /\ result[1].err.component = req.component
         /\ result[1].err.source.type = "Internal"
  /\ r_wpc = "panicked" /\ r_timer # "fired" =>
       /\ r_future = Some(Err(RunnerInternal("blocking runner task failed")))
       /\ r_pc = "returned" => r_result = r_future

C39_Witness ==
  /\ max_attempts = 3
  /\ Len(hist) = 1
  /\ ~hist[1].result.ok
  /\ pc = "done"
  /\ result = Some(Err(ExecErrorRunner(req.component,
                                       RunnerInternal("blocking exec failed"))))

====
